---- MODULE Spec2Model ----
(***************************************************************************)
(* A model of raw-http (github.com/codetesla51/raw-http): the HTTP/1.1     *)
(* server built on raw TCP sockets.  The model covers the byte-level       *)
(* message parser (server/request.go), the route table and the connection  *)
(* loop (server/pool.go), the response builder (server/response.go) and    *)
(* the accept loop of main.go.                                             *)
(*                                                                         *)
(* Byte strings.  A Go []byte / string is a sequence of atoms.  An atom is *)
(* a TLA+ string standing for the bytes it spells.  Every byte the code    *)
(* searches for, splits on or trims (space, CR LF, ':', '?', '&', '=',     *)
(* '/', '%', '+') is always an atom of its own, so bytes.Split,            *)
(* bytes.Contains, strings.Trim and strings.HasPrefix act on atoms exactly *)
(* as they act on the bytes.  len() is ByteLen, the sum of the atoms'      *)
(* lengths.                                                                *)
(***************************************************************************)
EXTENDS Integers, Sequences, FiniteSets, Bags, TLC

VARIABLES
    scenario,    \* which clients there are and what they send (fixed during a run)
    routes,      \* Router.routes: method -> (path -> handler)
    regOrder,    \* history: the Register calls made, in order: <<method, path, handler>>
    mainPc,      \* position of main(): the index of its next Register call, then of
                 \* the start of the accept loops, then of the wait for the shutdown
    alive,       \* the server process is running
    accepting,   \* the accept loop of main.go is running
    files,       \* the file system: absolute path -> [dir, readable, content]
    conn,        \* per connection: the state of its RunConnection and of its client
    probe,       \* input and result of the last call of a function under test
    config,      \* Router.config
    shut,        \* the shutdown of main(): its context, the TLS listener, the clock
    mu,          \* Router.mu and the goroutines that call Register and HandleBytes
    pools        \* requestBufferPool and responseBufferPool: the buffers they hold

vars == <<scenario, routes, regOrder, mainPc, alive, accepting, files, conn, probe,
          config, shut, mu, pools>>

(***************************************************************************)
(* Bounds of the model.                                                    *)
(***************************************************************************)
NConn == 2          \* connections the listener accepts

Conns == 1..NConn

(***************************************************************************)
(* Byte-string helpers (Go's bytes and strings packages).                  *)
(***************************************************************************)
SP == " "
CRLF == "\r\n"
EndMarker == <<CRLF, CRLF>>

RECURSIVE ByteLen(_)
ByteLen(s) ==
    IF s = <<>> THEN 0 ELSE Len(Head(s)) + ByteLen(Tail(s))

\* bytes.Index: the first position where sep occurs in s, 0 if none.
IndexOf(s, sep) ==
    LET hits == {i \in 1..(Len(s) - Len(sep) + 1) :
                    SubSeq(s, i, i + Len(sep) - 1) = sep}
    IN  IF hits = {} THEN 0 ELSE CHOOSE i \in hits : \A j \in hits : i <= j

Contains(s, sep) == IndexOf(s, sep) # 0

HasPrefix(s, p) == Len(s) >= Len(p) /\ SubSeq(s, 1, Len(p)) = p

\* bytes.SplitN(s, sep, n) for a non-empty sep: n > 0 gives at most n pieces, the
\* last one unsplit; n < 0 splits at every sep.  An empty s gives one empty piece.
RECURSIVE SplitN(_, _, _)
SplitN(s, sep, n) ==
    LET i == IndexOf(s, sep)
    IN  IF n = 1 \/ i = 0 THEN <<s>>
        ELSE <<SubSeq(s, 1, i - 1)>>
             \o SplitN(SubSeq(s, i + Len(sep), Len(s)), sep, IF n < 0 THEN n ELSE n - 1)

Split(s, sep) == SplitN(s, sep, -1)

\* strings.Trim(s, cutset) with the cutset given as a set of one-byte atoms.
RECURSIVE TrimLeft(_, _)
TrimLeft(s, cut) ==
    IF s # <<>> /\ Head(s) \in cut THEN TrimLeft(Tail(s), cut) ELSE s

RECURSIVE TrimRight(_, _)
TrimRight(s, cut) ==
    IF s # <<>> /\ s[Len(s)] \in cut THEN TrimRight(SubSeq(s, 1, Len(s) - 1), cut) ELSE s

Trim(s, cut) == TrimRight(TrimLeft(s, cut), cut)

\* bytes.TrimSpace: the white space bytes; CRLF is the two-byte atom of CR and LF.
WhiteSpace == {" ", "\t", "\n", "\r", CRLF}

TrimSpace(s) == Trim(s, WhiteSpace)

\* strconv.Itoa for n >= 0: one atom per decimal digit.
Digits == <<"0", "1", "2", "3", "4", "5", "6", "7", "8", "9">>

RECURSIVE Itoa(_)
Itoa(n) ==
    IF n < 10 THEN <<Digits[n + 1]>> ELSE Itoa(n \div 10) \o <<Digits[(n % 10) + 1]>>

DigitVal(a) == CHOOSE d \in 0..9 : Digits[d + 1] = a

IsDigit(a) == \E d \in 1..10 : Digits[d] = a

RECURSIVE AtoiDigits(_)
AtoiDigits(s) ==
    IF s = <<>> THEN 0 ELSE AtoiDigits(SubSeq(s, 1, Len(s) - 1)) * 10 + DigitVal(s[Len(s)])

\* strconv.Atoi: [ok, val]; an optional sign, then one or more digits.
Atoi(s) ==
    LET neg  == s # <<>> /\ Head(s) = "-"
        body == IF s # <<>> /\ Head(s) \in {"-", "+"} THEN Tail(s) ELSE s
    IN  IF body # <<>> /\ \A i \in 1..Len(body) : IsDigit(body[i])
        THEN [ok |-> TRUE, val |-> IF neg THEN 0 - AtoiDigits(body) ELSE AtoiDigits(body)]
        ELSE [ok |-> FALSE, val |-> 0]

\* A Go map[string]string is a function from byte strings to byte strings; a read
\* of a missing key (or of a nil map) gives the empty string.
EmptyMap == <<>>

Get(m, k) == IF k \in DOMAIN m THEN m[k] ELSE <<>>

Put(m, k, v) == [x \in (DOMAIN m) \cup {k} |-> IF x = k THEN v ELSE m[x]]

(***************************************************************************)
(* Message Parser: server/request.go.                                      *)
(***************************************************************************)
\* A request line parser that asks for a method and a path only.
parseRequestLineNoVersion(firstLine) ==
    LET parts == Split(firstLine, <<SP>>)
    IN  IF Len(parts) < 2
        THEN [ok |-> FALSE, method |-> <<>>, path |-> <<>>]
        ELSE [ok |-> TRUE, method |-> parts[1], path |-> parts[2]]

\* parseRequestLineFromBytes: [ok, method, path].
parseRequestLineFromBytes(firstLine) ==
    LET parts == Split(firstLine, <<SP>>)
    IN  IF Len(parts) < 3
        THEN [ok |-> FALSE, method |-> <<>>, path |-> <<>>]
        ELSE [ok |-> TRUE, method |-> parts[1], path |-> parts[2]]

\* parseHeadersFromBytes: each line is split at its first colon, both sides are
\* trimmed, lines without a colon are skipped, a repeated name keeps the last value.
RECURSIVE parseHeadersFromBytes(_)
parseHeadersFromBytes(headerLines) ==
    IF headerLines = <<>> THEN EmptyMap
    ELSE LET n     == Len(headerLines)
             m     == parseHeadersFromBytes(SubSeq(headerLines, 1, n - 1))
             parts == SplitN(headerLines[n], <<":">>, 2)
         IN  IF Len(parts) = 2
             THEN Put(m, TrimSpace(parts[1]), TrimSpace(parts[2]))
             ELSE m

\* net/url: the byte of a percent escape.  The printable ASCII bytes 0x20..0x7E
\* (the backquote, which a TLA+ string cannot hold, is written \x60).
Ascii ==
    <<" ", "!", "\"", "#", "$", "%", "&", "'", "(", ")", "*", "+", ",", "-", ".", "/",
      "0", "1", "2", "3", "4", "5", "6", "7", "8", "9", ":", ";", "<", "=", ">", "?",
      "@", "A", "B", "C", "D", "E", "F", "G", "H", "I", "J", "K", "L", "M", "N", "O",
      "P", "Q", "R", "S", "T", "U", "V", "W", "X", "Y", "Z", "[", "\\", "]", "^", "_",
      "\\x60", "a", "b", "c", "d", "e", "f", "g", "h", "i", "j", "k", "l", "m", "n", "o",
      "p", "q", "r", "s", "t", "u", "v", "w", "x", "y", "z", "{", "|", "}", "~">>

HexDigits == <<"0", "1", "2", "3", "4", "5", "6", "7", "8", "9",
               "a", "b", "c", "d", "e", "f", "A", "B", "C", "D", "E", "F">>

IsHex(a) == \E i \in 1..22 : HexDigits[i] = a

HexVal(a) ==
    LET i == CHOOSE j \in 1..22 : HexDigits[j] = a
    IN  IF i <= 16 THEN i - 1 ELSE i - 7

\* The byte with code n; a byte outside printable ASCII is written \xHH.
Chr(n) ==
    IF n >= 32 /\ n <= 126 THEN Ascii[n - 31]
    ELSE "\\x" \o HexDigits[(n \div 16) + 1] \o HexDigits[(n % 16) + 1]

\* url.QueryUnescape fails when a '%' is not followed by two hex digits.
RECURSIVE ValidEscapes(_)
ValidEscapes(s) ==
    IF s = <<>> THEN TRUE
    ELSE IF Head(s) = "%"
         THEN Len(s) >= 3 /\ IsHex(s[2]) /\ IsHex(s[3]) /\ ValidEscapes(SubSeq(s, 4, Len(s)))
         ELSE ValidEscapes(Tail(s))

RECURSIVE Unescape(_)
Unescape(s) ==
    IF s = <<>> THEN <<>>
    ELSE IF Head(s) = "%"
         THEN <<Chr(HexVal(s[2]) * 16 + HexVal(s[3]))>> \o Unescape(SubSeq(s, 4, Len(s)))
         ELSE IF Head(s) = "+" THEN <<SP>> \o Unescape(Tail(s))
         ELSE <<Head(s)>> \o Unescape(Tail(s))

\* safeURLDecode: the decoded string, or the original when decoding fails.
safeURLDecode(encoded) ==
    IF ValidEscapes(encoded) THEN Unescape(encoded) ELSE encoded

\* parseKeyValuePairsFromBytes: split on '&', each pair on its first '=', pairs
\* without '=' are skipped, key and value are decoded, the last occurrence wins.
RECURSIVE KeyValuePairs(_)
KeyValuePairs(pairs) ==
    IF pairs = <<>> THEN EmptyMap
    ELSE LET n     == Len(pairs)
             m     == KeyValuePairs(SubSeq(pairs, 1, n - 1))
             parts == SplitN(pairs[n], <<"=">>, 2)
         IN  IF Len(parts) = 2
             THEN Put(m, safeURLDecode(parts[1]), safeURLDecode(parts[2]))
             ELSE m

\* A parser of key-value pairs in which the first occurrence of a key wins.
parseKeyValuePairsFirstWins(data) ==
    LET pairs == Split(data, <<"&">>)
    IN  KeyValuePairs([i \in 1..Len(pairs) |-> pairs[Len(pairs) + 1 - i]])

parseKeyValuePairsFromBytes(data) == KeyValuePairs(Split(data, <<"&">>))

\* encoding/json on a flat object.  The model's JSON texts are objects whose
\* members are strings, integers, true, false or null (a string is a quote atom,
\* its content, a quote atom; an integer is digit atoms); any other text is not
\* JSON.  JsonString, JsonValue: [ok, val, rest], val as fmt's %v prints it.
QUOTE == "\""

JsonFail == [ok |-> FALSE, val |-> <<>>, rest |-> <<>>]

JsonString(s) ==
    IF s = <<>> \/ Head(s) # QUOTE THEN JsonFail
    ELSE LET i == IndexOf(Tail(s), <<QUOTE>>)
         IN  IF i = 0 \/ Contains(SubSeq(s, 2, i), <<"\\">>) THEN JsonFail
             ELSE [ok |-> TRUE, val |-> SubSeq(s, 2, i), rest |-> SubSeq(s, i + 2, Len(s))]

RECURSIVE DigitRun(_)
DigitRun(s) ==
    IF s # <<>> /\ IsDigit(Head(s)) THEN 1 + DigitRun(Tail(s)) ELSE 0

JsonValue(s) ==
    IF s = <<>> THEN JsonFail
    ELSE IF Head(s) = QUOTE THEN JsonString(s)
    ELSE IF Head(s) \in {"true", "false"}
         THEN [ok |-> TRUE, val |-> <<Head(s)>>, rest |-> Tail(s)]
    ELSE IF Head(s) = "null"
         THEN [ok |-> TRUE, val |-> <<"<nil>">>, rest |-> Tail(s)]
    ELSE LET neg == Head(s) = "-"
             t   == IF neg THEN Tail(s) ELSE s
             k   == DigitRun(t)
         IN  IF k = 0 \/ (k > 1 /\ Head(t) = "0") THEN JsonFail
             ELSE [ok |-> TRUE,
                   val |-> IF neg /\ AtoiDigits(SubSeq(t, 1, k)) # 0
                           THEN <<"-">> \o SubSeq(t, 1, k) ELSE SubSeq(t, 1, k),
                   rest |-> SubSeq(t, k + 1, Len(t))]

\* The members after '{' or ',': [ok, map].
RECURSIVE JsonMembers(_, _)
JsonMembers(s, m) ==
    LET key == JsonString(TrimLeft(s, WhiteSpace))
        col == TrimLeft(key.rest, WhiteSpace)
        v   == JsonValue(TrimLeft(Tail(col), WhiteSpace))
        nxt == TrimLeft(v.rest, WhiteSpace)
    IN  IF ~key.ok \/ col = <<>> \/ Head(col) # ":" THEN [ok |-> FALSE, map |-> EmptyMap]
        ELSE IF ~v.ok \/ nxt = <<>> THEN [ok |-> FALSE, map |-> EmptyMap]
        ELSE IF Head(nxt) = ","
             THEN JsonMembers(Tail(nxt), Put(m, key.val, v.val))
        ELSE IF Head(nxt) = "}" /\ TrimLeft(Tail(nxt), WhiteSpace) = <<>>
             THEN [ok |-> TRUE, map |-> Put(m, key.val, v.val)]
        ELSE [ok |-> FALSE, map |-> EmptyMap]

\* A body parser that reads a body sent as JSON as key-value pairs.
parseJSONAsForm(bodyData) == parseKeyValuePairsFromBytes(bodyData)

\* parseJSONBodyFromBytes: the members of the object, or the empty map when the
\* body is not a JSON object.
parseJSONBodyFromBytes(bodyData) ==
    LET s == TrimLeft(bodyData, WhiteSpace)
    IN  IF s = <<>> \/ Head(s) # "{" THEN EmptyMap
        ELSE LET t == TrimLeft(Tail(s), WhiteSpace)
             IN  IF t # <<>> /\ Head(t) = "}"
                 THEN EmptyMap
                 ELSE JsonMembers(Tail(s), EmptyMap).map

\* detectBrowser: the first of Chrome, Firefox, Safari the User-Agent contains.
detectBrowser(userAgent) ==
    IF Contains(userAgent, <<"Chrome">>) THEN "Chrome"
    ELSE IF Contains(userAgent, <<"Firefox">>) THEN "Firefox"
    ELSE IF Contains(userAgent, <<"Safari">>) THEN "Safari"
    ELSE "Unknown Browser"

\* matchRoute: [matched, params].  Both strings are trimmed of '/' and split on
\* '/'; the segment counts must agree; a pattern segment that begins with ':'
\* captures the path segment under the rest of its name, any other segment must
\* equal the path segment.  The loop stops at the first segment that differs.
RECURSIVE MatchSegments(_, _, _, _)
MatchSegments(requestParts, patternParts, i, params) ==
    IF i > Len(requestParts) THEN [matched |-> TRUE, params |-> params]
    ELSE IF HasPrefix(patternParts[i], <<":">>)
         THEN MatchSegments(requestParts, patternParts, i + 1,
                            Put(params, Tail(patternParts[i]), requestParts[i]))
    ELSE IF requestParts[i] # patternParts[i]
         THEN [matched |-> FALSE, params |-> EmptyMap]
    ELSE MatchSegments(requestParts, patternParts, i + 1, params)

\* A matcher that compares the segments both strings have and does not
\* compare their numbers.
matchRoutePrefix(requestPath, routePattern) ==
    LET requestParts == Split(Trim(requestPath, {"/"}), <<"/">>)
        patternParts == Split(Trim(routePattern, {"/"}), <<"/">>)
        n            == IF Len(requestParts) < Len(patternParts)
                        THEN Len(requestParts) ELSE Len(patternParts)
    IN  MatchSegments(SubSeq(requestParts, 1, n), SubSeq(patternParts, 1, n), 1, EmptyMap)

\* A matcher that trims the slashes at the start of the strings only.
matchRouteLeadingOnly(requestPath, routePattern) ==
    LET requestParts == Split(TrimLeft(requestPath, {"/"}), <<"/">>)
        patternParts == Split(TrimLeft(routePattern, {"/"}), <<"/">>)
    IN  IF Len(requestParts) # Len(patternParts)
        THEN [matched |-> FALSE, params |-> EmptyMap]
        ELSE MatchSegments(requestParts, patternParts, 1, EmptyMap)

\* A matcher for which a path without segments matches nothing.
matchRouteNonEmpty(requestPath, routePattern) ==
    LET requestParts == Split(Trim(requestPath, {"/"}), <<"/">>)
        patternParts == Split(Trim(routePattern, {"/"}), <<"/">>)
    IN  IF Len(requestParts) # Len(patternParts) \/ Trim(requestPath, {"/"}) = <<>>
        THEN [matched |-> FALSE, params |-> EmptyMap]
        ELSE MatchSegments(requestParts, patternParts, 1, EmptyMap)

matchRoute(requestPath, routePattern) ==
    LET requestParts == Split(Trim(requestPath, {"/"}), <<"/">>)
        patternParts == Split(Trim(routePattern, {"/"}), <<"/">>)
    IN  IF Len(requestParts) # Len(patternParts)
        THEN [matched |-> FALSE, params |-> EmptyMap]
        ELSE MatchSegments(requestParts, patternParts, 1, EmptyMap)

(***************************************************************************)
(* Response Builder: server/response.go.                                   *)
(***************************************************************************)
\* A response builder whose Content-Length counts the blank line with the body.
CreateResponseBytesBlankLine(statusCode, contentType, statusMessage, body) ==
    [bytes  |-> <<"HTTP/1.1", SP>> \o statusCode \o <<SP>> \o statusMessage
                \o <<CRLF, "Content-Type", ":", SP>> \o contentType
                \o <<CRLF, "Connection", ":", SP, "keep-alive">>
                \o <<CRLF, "Content-Length", ":", SP>> \o Itoa(ByteLen(body) + 4)
                \o <<CRLF, CRLF>> \o body,
     status |-> statusCode]

\* A response builder that writes the body without the white space around it.
CreateResponseBytesTrimmed(statusCode, contentType, statusMessage, body) ==
    [bytes  |-> <<"HTTP/1.1", SP>> \o statusCode \o <<SP>> \o statusMessage
                \o <<CRLF, "Content-Type", ":", SP>> \o contentType
                \o <<CRLF, "Connection", ":", SP, "keep-alive">>
                \o <<CRLF, "Content-Length", ":", SP>> \o Itoa(ByteLen(TrimSpace(body)))
                \o <<CRLF, CRLF>> \o TrimSpace(body),
     status |-> statusCode]

\* A response builder that writes Content-Length before the Connection header.
CreateResponseBytesLengthFirst(statusCode, contentType, statusMessage, body) ==
    [bytes  |-> <<"HTTP/1.1", SP>> \o statusCode \o <<SP>> \o statusMessage
                \o <<CRLF, "Content-Type", ":", SP>> \o contentType
                \o <<CRLF, "Content-Length", ":", SP>> \o Itoa(ByteLen(body))
                \o <<CRLF, "Connection", ":", SP, "keep-alive">>
                \o <<CRLF, CRLF>> \o body,
     status |-> statusCode]

\* CreateResponseBytes: [bytes, status].  The buffer receives, in this order, the
\* status line, Content-Type, Connection: keep-alive, Content-Length with
\* strconv.Itoa(len(body)), the blank line and the body; the result is a copy.
CreateResponseBytes(statusCode, contentType, statusMessage, body) ==
    [bytes  |-> <<"HTTP/1.1", SP>> \o statusCode \o <<SP>> \o statusMessage
                \o <<CRLF, "Content-Type", ":", SP>> \o contentType
                \o <<CRLF, "Connection", ":", SP, "keep-alive">>
                \o <<CRLF, "Content-Length", ":", SP>> \o Itoa(ByteLen(body))
                \o <<CRLF, CRLF>> \o body,
     status |-> statusCode]

TextPlain == <<"text/plain">>

\* The Serve* helpers: a fixed status with the given message, or a default text
\* when the message is empty.
Serve400(msg) ==
    CreateResponseBytes(<<"400">>, TextPlain, <<"Bad", SP, "Request">>,
                        IF msg = <<>> THEN <<"Bad", SP, "Request">> ELSE msg)

Serve401(msg) ==
    CreateResponseBytes(<<"401">>, TextPlain, <<"Unauthorized">>,
                        IF msg = <<>> THEN <<"Authentication", SP, "required">> ELSE msg)

Serve403(msg) ==
    CreateResponseBytes(<<"403">>, TextPlain, <<"Forbidden">>,
                        IF msg = <<>> THEN <<"Access", SP, "denied">> ELSE msg)

Serve405(method, path) ==
    CreateResponseBytes(<<"405">>, TextPlain, <<"Method", SP, "Not", SP, "Allowed">>,
                        <<"Method", SP>> \o method
                        \o <<SP, "not", SP, "allowed", SP, "for", SP>> \o path)

Serve429(msg) ==
    CreateResponseBytes(<<"429">>, TextPlain, <<"Too", SP, "Many", SP, "Requests">>,
                        IF msg = <<>> THEN <<"Rate", SP, "limit", SP, "exceeded">> ELSE msg)

Serve500(msg) ==
    CreateResponseBytes(<<"500">>, TextPlain, <<"Internal", SP, "Server", SP, "Error">>,
                        IF msg = <<>> THEN <<"Internal", SP, "server", SP, "error">> ELSE msg)

Serve502(msg) ==
    CreateResponseBytes(<<"502">>, TextPlain, <<"Bad", SP, "Gateway">>,
                        IF msg = <<>> THEN <<"Bad", SP, "gateway">> ELSE msg)

Serve503(msg) ==
    CreateResponseBytes(<<"503">>, TextPlain, <<"Service", SP, "Unavailable">>,
                        IF msg = <<>> THEN <<"Service", SP, "unavailable">> ELSE msg)

Serve201(body) ==
    CreateResponseBytes(<<"201">>, TextPlain, <<"Created">>,
                        IF body = <<>> THEN <<"Resource", SP, "created">> ELSE body)

Serve204 ==
    CreateResponseBytes(<<"204">>, TextPlain, <<"No", SP, "Content">>, <<>>)

Serve301(url) ==
    CreateResponseBytes(<<"301">>, TextPlain, <<"Moved", SP, "Permanently">>,
                        <<"Moved", SP, "to", SP>> \o url)

Serve302(url) ==
    CreateResponseBytes(<<"302">>, TextPlain, <<"Found">>, <<"Found", SP, "at", SP>> \o url)

(***************************************************************************)
(* The file system: server/mime.go (FileExists, readFileContent,           *)
(* getContentType) and path/filepath.  A file system maps the absolute     *)
(* path of a node, its sequence of names, to [dir, readable, content].     *)
(* The process runs in the directory /app (WORKDIR of the Dockerfile).     *)
(***************************************************************************)
Cwd == <<<<"app">>>>

DOT == "."

\* The names of a path: Split on '/'.
Names(path) == Split(path, <<"/">>)

\* filepath.Clean of the names of a rooted path: empty names and "." are dropped,
\* ".." removes the name before it (and is dropped at the root).
RECURSIVE CleanNames(_, _)
CleanNames(names, stack) ==
    IF names = <<>> THEN stack
    ELSE LET n == Head(names)
         IN  IF n = <<>> \/ n = <<DOT>> THEN CleanNames(Tail(names), stack)
             ELSE IF n = <<DOT, DOT>>
                  THEN CleanNames(Tail(names),
                                  IF stack = <<>> THEN stack
                                  ELSE SubSeq(stack, 1, Len(stack) - 1))
             ELSE CleanNames(Tail(names), Append(stack, n))

RECURSIVE JoinNames(_)
JoinNames(names) ==
    IF names = <<>> THEN <<>> ELSE <<"/">> \o Head(names) \o JoinNames(Tail(names))

\* filepath.Abs of a relative path: Clean(Join(cwd, path)), as a byte string.
Abs(path) ==
    LET names == CleanNames(Names(path), Cwd)
    IN  IF names = <<>> THEN <<"/">> ELSE JoinNames(names)

\* The kernel's path walk of os.Stat and os.ReadFile from the working directory:
\* every name but the last must be an existing directory, ".." steps to the
\* parent.  The absolute path of the node, or <<"?">> when the walk fails.
NoNode == <<"?">>

IsDir(fs, node) == node = <<>> \/ node = Cwd \/ (node \in DOMAIN fs /\ fs[node].dir)

RECURSIVE Walk(_, _, _)
Walk(fs, names, at) ==
    IF names = <<>> THEN at
    ELSE LET n == Head(names)
         IN  IF ~IsDir(fs, at) THEN NoNode
             ELSE IF n = <<>> \/ n = <<DOT>> THEN Walk(fs, Tail(names), at)
             ELSE IF n = <<DOT, DOT>>
                  THEN Walk(fs, Tail(names),
                            IF at = <<>> THEN at ELSE SubSeq(at, 1, Len(at) - 1))
             ELSE IF Append(at, n) \in DOMAIN fs \/ Append(at, n) = Cwd
                  THEN Walk(fs, Tail(names), Append(at, n))
             ELSE NoNode

\* FileExists: os.Stat succeeds.
FileExists(fs, filePath) == Walk(fs, Names(filePath), Cwd) # NoNode

\* readFileContent: [ok, content]; os.ReadFile fails on a missing node, on a
\* directory and on a file the process may not read.
readFileContent(fs, filePath) ==
    LET node == Walk(fs, Names(filePath), Cwd)
    IN  IF node \in DOMAIN fs /\ ~fs[node].dir /\ fs[node].readable
        THEN [ok |-> TRUE, content |-> fs[node].content]
        ELSE [ok |-> FALSE, content |-> <<>>]

\* filepath.Ext: the suffix of the last name from its last '.', empty if none.
Ext(filePath) ==
    LET names == Names(filePath)
        last  == names[Len(names)]
        dots  == {i \in 1..Len(last) : last[i] = DOT}
    IN  IF dots = {} THEN <<>>
        ELSE SubSeq(last, CHOOSE i \in dots : \A j \in dots : j <= i, Len(last))

\* getContentType: mime.TypeByExtension over the types init() registers (a text/
\* type gets the charset parameter); application/octet-stream for the rest.
getContentType(filePath) ==
    LET ext == Ext(filePath)
    IN  IF ext \in {<<DOT, "html">>, <<DOT, "htm">>}
        THEN <<"text/html", ";", SP, "charset", "=", "utf-8">>
        ELSE IF ext = <<DOT, "txt">> THEN <<"text/plain", ";", SP, "charset", "=", "utf-8">>
        ELSE IF ext = <<DOT, "css">> THEN <<"text/css", ";", SP, "charset", "=", "utf-8">>
        ELSE IF ext = <<DOT, "js">> THEN <<"application/javascript">>
        ELSE IF ext = <<DOT, "json">> THEN <<"application/json">>
        ELSE <<"application/octet-stream">>

\* A 404 responder that never looks for pages/404.html.
serve404Plain(fs) ==
    CreateResponseBytes(<<"404">>, TextPlain, <<"Not", SP, "Found">>,
                        <<"Route", SP, "Not", SP, "Found">>)

\* serve404Bytes: pages/404.html when it can be read, the text otherwise.
serve404Bytes(fs) ==
    LET page == readFileContent(fs, <<"pages", "/", "404", DOT, "html">>)
    IN  IF ~page.ok
        THEN CreateResponseBytes(<<"404">>, TextPlain, <<"Not", SP, "Found">>,
                                 <<"Route", SP, "Not", SP, "Found">>)
        ELSE CreateResponseBytes(<<"404">>, <<"text/html">>, <<"Not", SP, "Found">>,
                                 page.content)

(***************************************************************************)
(* Route Table: Router.Register and the lookup of Router.HandleBytes       *)
(* (server/pool.go).                                                       *)
(***************************************************************************)
\* NewRouter: no routes.
NewRouter == EmptyMap

\* Register: routes[method][path] = handler, the method's map made on first use.
RegisterRoute(rt, method, path, handler) ==
    Put(rt, method, Put(IF method \in DOMAIN rt THEN rt[method] ELSE EmptyMap, path, handler))

NotFound == [found |-> FALSE, handler |-> "", pattern |-> <<>>, params |-> EmptyMap]

\* A lookup that goes through the patterns without trying the path as a key
\* first.
ResolvePatternsOnly(rt, method, cleanPath) ==
    IF method \notin DOMAIN rt THEN {NotFound}
    ELSE LET methodRoutes == rt[method]
             matching == {p \in DOMAIN methodRoutes : matchRoute(cleanPath, p).matched}
         IN  IF matching = {} THEN {NotFound}
             ELSE {[found |-> TRUE, handler |-> methodRoutes[p], pattern |-> p,
                    params |-> matchRoute(cleanPath, p).params] : p \in matching}

\* The lookup of HandleBytes: the results it can produce.  No map for the method:
\* not found.  The path itself a key of the method's map: that handler, no
\* parameters.  Otherwise the method's map is ranged over (a Go map: the order of
\* the iteration is not specified and varies from run to run) and the first
\* pattern that matchRoute accepts is taken, so any matching pattern can be the
\* result.
Resolve(rt, method, cleanPath) ==
    IF method \notin DOMAIN rt THEN {NotFound}
    ELSE LET methodRoutes == rt[method]
             matching == {p \in DOMAIN methodRoutes : matchRoute(cleanPath, p).matched}
         IN  IF cleanPath \in DOMAIN methodRoutes
             THEN {[found |-> TRUE, handler |-> methodRoutes[cleanPath],
                    pattern |-> cleanPath, params |-> EmptyMap]}
             ELSE IF matching = {} THEN {NotFound}
             ELSE {[found |-> TRUE, handler |-> methodRoutes[p], pattern |-> p,
                    params |-> matchRoute(cleanPath, p).params] : p \in matching}

\* A Request built with the query map and the body map in each other's place.
MakeRequestSwapped(method, cleanPath, pathParams, queryMap, bodyMap, browserName) ==
    [Method |-> method, Path |-> cleanPath, PathParams |-> pathParams,
     Query |-> bodyMap, Body |-> queryMap, Headers |-> EmptyMap,
     Browser |-> browserName]

\* The Request HandleBytes builds for the handler; Headers is left unset.
MakeRequest(method, cleanPath, pathParams, queryMap, bodyMap, browserName) ==
    [Method |-> method, Path |-> cleanPath, PathParams |-> pathParams,
     Query |-> queryMap, Body |-> bodyMap, Headers |-> EmptyMap,
     Browser |-> browserName]

(***************************************************************************)
(* The application of main.go: its routes and handlers.                    *)
(***************************************************************************)
GET == <<"GET">>
POST == <<"POST">>

\* main.go's Register calls, in program order: <<method, path, handler>>.
MainRoutes ==
    << <<GET, <<"/", "data">>, "data">>,
       <<GET, <<"/", "users", "/", ":", "id">>, "users">>,
       <<POST, <<"/", "api", "/", "create">>, "create">>,
       <<GET, <<"/", "ping">>, "ping">>,
       <<GET, <<"/", "panic">>, "panic">> >>

\* What a handler does with the Request: [panics, bytes, status].  The handlers
\* of main.go; any other handler answers 200 with its own name as the body.
Returns(r) == [panics |-> FALSE, bytes |-> r.bytes, status |-> r.status]

RunHandler(h, req) ==
    IF h = "panic" THEN [panics |-> TRUE, bytes |-> <<>>, status |-> <<>>]
    ELSE IF h = "data"
         THEN LET id == Get(req.Query, <<"id">>)
              IN  IF id = <<>>
                  THEN Returns(Serve400(<<"missing", SP, "'", "id", "'", SP, "query", SP,
                                          "parameter">>))
                  ELSE Returns(CreateResponseBytes(<<"200">>, <<"application/json">>, <<"OK">>,
                           <<"{", QUOTE, "id", QUOTE, ":", QUOTE>> \o id
                           \o <<QUOTE, ",", QUOTE, "info", QUOTE, ":", QUOTE, "Data", SP, "for",
                                SP, "id", SP>> \o id \o <<QUOTE, "}">>))
    ELSE IF h = "users"
         THEN Returns(CreateResponseBytes(<<"200">>, TextPlain, <<"OK">>,
                          <<"User", ":", SP>> \o Get(req.PathParams, <<"id">>)))
    ELSE IF h = "create"
         THEN LET name == Get(req.Body, <<"name">>)
              IN  IF name = <<>>
                  THEN Returns(Serve400(<<"name", SP, "field", SP, "required">>))
                  ELSE Returns(CreateResponseBytes(<<"201">>, <<"application/json">>, <<"Created">>,
                           <<"{", QUOTE, "status", QUOTE, ":", QUOTE, "created", QUOTE, ",",
                             QUOTE, "name", QUOTE, ":", QUOTE>> \o name \o <<QUOTE, "}">>))
    ELSE IF h = "ping"
         THEN Returns(CreateResponseBytes(<<"200">>, TextPlain, <<"OK">>, <<"pong">>))
    ELSE Returns(CreateResponseBytes(<<"200">>, TextPlain, <<"OK">>, <<h>>))

(***************************************************************************)
(* Connection Loop: Router.processRequest, readRemainingBody, routeRequest *)
(* (server/pool.go) as operators; the actions below step through them.     *)
(***************************************************************************)
MaxHeaderSize == 8192       \* DefaultConfig().MaxHeaderSize
MaxBodySize == 10485760     \* DefaultConfig().MaxBodySize, 10 * 1024 * 1024
ChunkSize == 4096           \* the chunk buffers conn.Read fills
ReadTimeout == 30           \* DefaultConfig().ReadTimeout, in seconds

\* DefaultConfig: the fields of Config the limits and the keep-alive switch are
\* read from.
DefaultConfig ==
    [ReadTimeout |-> ReadTimeout, MaxHeaderSize |-> MaxHeaderSize,
     MaxBodySize |-> MaxBodySize, EnableKeepAlive |-> TRUE]

\* The longest prefix of whole atoms of s that holds at most n bytes.
RECURSIVE TakeBytes(_, _)
TakeBytes(s, n) ==
    IF s = <<>> \/ Len(Head(s)) > n THEN <<>>
    ELSE <<Head(s)>> \o TakeBytes(Tail(s), n - Len(Head(s)))

DropBytes(s, n) == SubSeq(s, Len(TakeBytes(s, n)) + 1, Len(s))

\* processRequest up to the headers: the request is split at the first blank
\* line, the header section into lines, the first line into method and path,
\* the other lines into the header map.  [ok, method, pathBytes, headerMap,
\* bodyData]; ok is false when the request line has fewer than three parts.
ParseHead(requestData) ==
    LET parts         == SplitN(requestData, EndMarker, 2)
        headerSection == parts[1]
        bodyData      == IF Len(parts) > 1 THEN parts[2] ELSE <<>>
        headerLines   == Split(headerSection, <<CRLF>>)
        line          == parseRequestLineFromBytes(headerLines[1])
    IN  [ok |-> line.ok, method |-> line.method, pathBytes |-> line.path,
         headerMap |-> IF line.ok THEN parseHeadersFromBytes(Tail(headerLines)) ELSE EmptyMap,
         bodyData |-> bodyData]

\* readRemainingBody before its loop: the bytes still to read, 0 when there is
\* no Content-Length, when it is no number, or when the body is already there.
RemainingBytes(headerMap, bodyData) ==
    LET contentLengthStr == Get(headerMap, <<"Content-Length">>)
        contentLength    == Atoi(contentLengthStr)
    IN  IF contentLengthStr = <<>> THEN 0
        ELSE IF ~contentLength.ok \/ ByteLen(bodyData) >= contentLength.val THEN 0
        ELSE contentLength.val - ByteLen(bodyData)

\* The check at the end of processRequest.
ShouldClose(headerMap) == Get(headerMap, <<"Connection">>) = <<"close">>

\* Router.HandleBytes: what the request leads to.  No route: the 404 response;
\* a route: the call of its handler with the Request.
Reply(r) == [kind |-> "reply", bytes |-> r.bytes, status |-> r.status,
             handler |-> "", req |-> <<>>]

HandleBytes(fs, rt, method, cleanPath, queryMap, bodyMap, browserName) ==
    {IF ~m.found THEN Reply(serve404Bytes(fs))
     ELSE [kind |-> "call", bytes |-> <<>>, status |-> <<>>, handler |-> m.handler,
           req |-> MakeRequest(method, cleanPath, m.params, queryMap, bodyMap, browserName)]
       : m \in Resolve(rt, method, cleanPath)}

\* routeRequest: the static file under pages when the path stays inside pages and
\* the file exists (404 when it cannot be read), 403 when the path leaves pages,
\* the Route Table otherwise.
StaticFilePath(cleanPath) ==
    IF cleanPath = <<"/">> THEN <<"pages", "/", "index", DOT, "html">>
    ELSE <<"pages">> \o cleanPath

\* isPathTraversal: the absolute file path does not begin with the bytes of the
\* absolute path of pages.
IsPathTraversal(cleanPath) ==
    ~HasPrefix(Abs(StaticFilePath(cleanPath)), Abs(<<"pages">>))

\* A routeRequest that consults the Route Table first and looks for a file
\* only when no route matches.
routeRequestRoutesFirst(fs, rt, method, cleanPath, queryMap, bodyMap, browserName) ==
    LET filePath == StaticFilePath(cleanPath)
        content  == readFileContent(fs, filePath)
    IN  IF Resolve(rt, method, cleanPath) # {NotFound}
        THEN HandleBytes(fs, rt, method, cleanPath, queryMap, bodyMap, browserName)
        ELSE IF ~IsPathTraversal(cleanPath) /\ content.ok
             THEN {Reply(CreateResponseBytes(<<"200">>, getContentType(filePath), <<"OK">>,
                                             content.content))}
        ELSE {Reply(serve404Bytes(fs))}

routeRequest(fs, rt, method, cleanPath, queryMap, bodyMap, browserName) ==
    LET filePath        == StaticFilePath(cleanPath)
        isPathTraversal == IsPathTraversal(cleanPath)
        content         == readFileContent(fs, filePath)
    IN  IF ~isPathTraversal /\ FileExists(fs, filePath)
        THEN IF content.ok
             THEN {Reply(CreateResponseBytes(<<"200">>, getContentType(filePath), <<"OK">>,
                                             content.content))}
             ELSE {Reply(serve404Bytes(fs))}
        ELSE IF isPathTraversal
             THEN {Reply(CreateResponseBytes(<<"403">>, TextPlain, <<"Forbidden">>,
                                             <<"Access", SP, "denied">>))}
        ELSE HandleBytes(fs, rt, method, cleanPath, queryMap, bodyMap, browserName)

\* processRequest after readRemainingBody: the query string is what follows the
\* first '?', the body is parsed as JSON when Content-Type contains
\* application/json and as key-value pairs otherwise (no map for an empty body).
RouteParsed(fs, rt, method, pathBytes, headerMap, bodyData) ==
    LET pathParts   == SplitN(pathBytes, <<"?">>, 2)
        cleanPath   == pathParts[1]
        queryMap    == IF Len(pathParts) > 1
                       THEN parseKeyValuePairsFromBytes(pathParts[2]) ELSE EmptyMap
        contentType == Get(headerMap, <<"Content-Type">>)
        bodyMap     == IF ByteLen(bodyData) > 0
                       THEN IF Contains(contentType, <<"application/json">>)
                            THEN parseJSONBodyFromBytes(bodyData)
                            ELSE parseKeyValuePairsFromBytes(bodyData)
                       ELSE EmptyMap
        browserName == detectBrowser(Get(headerMap, <<"User-Agent">>))
    IN  routeRequest(fs, rt, method, cleanPath, queryMap, bodyMap, browserName)

\* The 400 of a request line that does not parse, and the 500 of the recover.
BadRequestLine ==
    CreateResponseBytes(<<"400">>, TextPlain, <<"Bad", SP, "Request">>,
                        <<"Invalid", SP, "request", SP, "line">>)

PanicResponse ==
    CreateResponseBytes(<<"500">>, TextPlain, <<"Internal", SP, "Server", SP, "Error">>,
                        <<"Internal", SP, "server", SP, "error", SP, "occurred">>)

(***************************************************************************)
(* The clients: the requests they send.  A request of the catalogue is     *)
(* the chunks the client writes (one conn.Read returns one chunk) and what *)
(* the client means by it: the value it sent under the header name         *)
(* Connection (in exactly this case), and the handler                      *)
(* and Request fields the application of main.go should see.               *)
(***************************************************************************)
\* A chunk of ChunkSize bytes that holds no delimiter.
RECURSIVE Doubled(_, _)
Doubled(str, times) == IF times = 0 THEN str ELSE Doubled(str \o str, times - 1)

Fill == Doubled("x", 12)

\* Half a chunk of such bytes.
HalfFill == Doubled("x", 11)

Line(method, target) == method \o <<SP>> \o target \o <<SP, "HTTP/1.1", CRLF>>

Hdr(name, value) == <<name, ":", SP>> \o value \o <<CRLF>>

Host == Hdr("Host", <<"x">>)

NoExpect == [handler |-> "", Method |-> <<>>, Path |-> <<>>, PathParams |-> EmptyMap,
             Query |-> EmptyMap, Body |-> EmptyMap]

Catalogue ==
    [ping |->
        [wire |-> <<Line(GET, <<"/", "ping">>) \o Host \o <<CRLF>>>>,
         connection |-> <<>>,
         expect |-> [NoExpect EXCEPT !.handler = "ping", !.Method = GET,
                                     !.Path = <<"/", "ping">>]],
     pingClose |->
        [wire |-> <<Line(GET, <<"/", "ping">>) \o Host \o Hdr("Connection", <<"close">>)
                    \o <<CRLF>>>>,
         connection |-> <<"close">>,
         expect |-> [NoExpect EXCEPT !.handler = "ping", !.Method = GET,
                                     !.Path = <<"/", "ping">>]],
     user |->
        [wire |-> <<Line(GET, <<"/", "users", "/", "42", "?", "x", "=", "1">>) \o Host
                    \o Hdr("Connection", <<"keep-alive">>) \o <<CRLF>>>>,
         connection |-> <<"keep-alive">>,
         expect |-> [NoExpect EXCEPT !.handler = "users", !.Method = GET,
                                     !.Path = <<"/", "users", "/", "42">>,
                                     !.PathParams = (<<"id">> :> <<"42">>),
                                     !.Query = (<<"x">> :> <<"1">>)]],
     panic |->
        [wire |-> <<Line(GET, <<"/", "panic">>) \o Host \o <<CRLF>>>>,
         connection |-> <<>>,
         expect |-> [NoExpect EXCEPT !.handler = "panic", !.Method = GET,
                                     !.Path = <<"/", "panic">>]],
     nope |->
        [wire |-> <<Line(GET, <<"/", "nope">>) \o Host \o <<CRLF>>>>,
         connection |-> <<>>,
         expect |-> NoExpect],
     noMethod |->
        [wire |-> <<Line(<<"DELETE">>, <<"/", "ping">>) \o Host
                    \o Hdr("Connection", <<"close">>) \o <<CRLF>>>>,
         connection |-> <<"close">>,
         expect |-> NoExpect],
     bad |->
        [wire |-> <<<<"GET", SP, "/", "ping", CRLF>> \o Host
                    \o Hdr("Connection", <<"keep-alive">>) \o <<CRLF>>>>,
         connection |-> <<"keep-alive">>,
         expect |-> NoExpect],
     create |->
        [wire |-> <<Line(POST, <<"/", "api", "/", "create", "?", "v", "=", "2">>) \o Host
                    \o Hdr("Content-Type", <<"application/x-www-form-urlencoded">>)
                    \o Hdr("Content-Length", <<"6">>) \o <<CRLF>>,
                    <<"name", "=", "J">>>>,
         connection |-> <<>>,
         expect |-> [NoExpect EXCEPT !.handler = "create", !.Method = POST,
                                     !.Path = <<"/", "api", "/", "create">>,
                                     !.Query = (<<"v">> :> <<"2">>),
                                     !.Body = (<<"name">> :> <<"J">>)]],
     root |->
        [wire |-> <<Line(GET, <<"/">>) \o Host \o <<CRLF>>>>,
         connection |-> <<>>,
         expect |-> NoExpect],
     flood |->
        [wire |-> <<<<Fill>>, <<Fill>>, <<Fill>>, <<Fill>>>>,
         connection |-> <<>>,
         expect |-> NoExpect],
     jsonBad |->
        [wire |-> <<Line(POST, <<"/", "api", "/", "create">>) \o Host
                    \o Hdr("Content-Type", <<"application/json">>)
                    \o Hdr("Content-Length", <<"6">>) \o <<CRLF>>
                    \o <<"name", "=", "J">>>>,
         connection |-> <<>>,
         expect |-> [NoExpect EXCEPT !.handler = "create", !.Method = POST,
                                     !.Path = <<"/", "api", "/", "create">>]],
     jsonCut |->
        [wire |-> <<Line(POST, <<"/", "api", "/", "create">>) \o Host
                    \o Hdr("Content-Type", <<"application/json">>)
                    \o Hdr("Connection", <<"close">>)
                    \o Hdr("Content-Length", <<"1", "1">>) \o <<CRLF>>
                    \o <<"{", QUOTE, "name", QUOTE, ":", QUOTE, "J", QUOTE>>>>,
         connection |-> <<"close">>,
         expect |-> [NoExpect EXCEPT !.handler = "create", !.Method = POST,
                                     !.Path = <<"/", "api", "/", "create">>]],
     jsonOk |->
        [wire |-> <<Line(POST, <<"/", "api", "/", "create">>) \o Host
                    \o Hdr("Content-Type", <<"application/json">>)
                    \o Hdr("Content-Length", <<"1", "2">>) \o <<CRLF>>
                    \o <<"{", QUOTE, "name", QUOTE, ":", QUOTE, "J", QUOTE, "}">>>>,
         connection |-> <<>>,
         expect |-> [NoExpect EXCEPT !.handler = "create", !.Method = POST,
                                     !.Path = <<"/", "api", "/", "create">>,
                                     !.Body = (<<"name">> :> <<"J">>)]],
     closeLower |->
        [wire |-> <<Line(GET, <<"/", "ping">>) \o Host \o Hdr("connection", <<"close">>)
                    \o <<CRLF>>>>,
         connection |-> <<>>,
         expect |-> [NoExpect EXCEPT !.handler = "ping", !.Method = GET,
                                     !.Path = <<"/", "ping">>]],
     escape |->
        [wire |-> <<Line(GET, <<"/", DOT, DOT, "/", "etc", "/", "passwd">>) \o Host
                    \o <<CRLF>>>>,
         connection |-> <<>>,
         expect |-> NoExpect],
     sibling |->
        [wire |-> <<Line(GET, <<"/", DOT, DOT, "/", "pages", "-old", "/", "secret", DOT,
                               "txt">>) \o Host \o <<CRLF>>>>,
         connection |-> <<>>,
         expect |-> NoExpect],
     \* GET /ping and GET /users/42 written one after the other, read by the
     \* server in one read.
     pipelined |->
        [wire |-> <<Line(GET, <<"/", "ping">>) \o Host \o <<CRLF>>
                    \o Line(GET, <<"/", "users", "/", "42">>) \o Host \o <<CRLF>>>>,
         connection |-> <<>>,
         expect |-> [NoExpect EXCEPT !.handler = "ping", !.Method = GET,
                                     !.Path = <<"/", "ping">>]],
     \* Content-Length 6 and the body name=J, with the bytes &name=K after it.
     overlong |->
        [wire |-> <<Line(POST, <<"/", "api", "/", "create">>) \o Host
                    \o Hdr("Content-Length", <<"6">>) \o <<CRLF>>
                    \o <<"name", "=", "J", "&", "name", "=", "K">>>>,
         connection |-> <<>>,
         expect |-> [NoExpect EXCEPT !.handler = "create", !.Method = POST,
                                     !.Path = <<"/", "api", "/", "create">>,
                                     !.Body = (<<"name">> :> <<"J">>)]],
     \* Content-Length 10485761, one byte more than MaxBodySize; the start of
     \* the body comes with the header block.
     huge |->
        [wire |-> <<Line(POST, <<"/", "api", "/", "create">>) \o Host
                    \o Hdr("Content-Length", <<"1", "0", "4", "8", "5", "7", "6", "1">>)
                    \o <<CRLF>> \o <<"name", "=", "J">>>>,
         connection |-> <<>>,
         expect |-> NoExpect],
     \* GET /ping with a header whose value is 8192 bytes long, written in three
     \* pieces: the blank line comes with the piece that takes the header block
     \* past MaxHeaderSize.
     wide |->
        [wire |-> <<Line(GET, <<"/", "ping">>) \o <<"X-Fill", ":", SP, HalfFill>>,
                    <<Fill>>,
                    <<HalfFill, CRLF, CRLF>>>>,
         connection |-> <<>>,
         expect |-> [NoExpect EXCEPT !.handler = "ping", !.Method = GET,
                                     !.Path = <<"/", "ping">>]]]

\* The requests whose bytes are not framed as one request with its declared
\* body; they are sent in the scenario "framing" only.
FramingOnly == {"pipelined", "overlong", "huge", "wide"}

\* The file systems: no pages directory at all, and a site whose pages hold
\* index.html, 404.html and a file named ping, next to a directory pages-old
\* with a file secret.txt.
File(content) == [dir |-> FALSE, readable |-> TRUE, content |-> content]

Dir == [dir |-> TRUE, readable |-> TRUE, content |-> <<>>]

Pages == Append(Cwd, <<"pages">>)

FsNone == EmptyMap

FsSite ==
    (Pages :> Dir)
    @@ (Append(Pages, <<"index", DOT, "html">>) :> File(<<"<h1>", "home", "</h1>">>))
    @@ (Append(Pages, <<"404", DOT, "html">>) :> File(<<"<h1>", "lost", "</h1>">>))
    @@ (Append(Pages, <<"ping">>) :> File(<<"static", SP, "ping">>))
    @@ (Append(Cwd, <<"pages", "-old">>) :> Dir)
    @@ (<<<<"app">>, <<"pages", "-old">>, <<"secret", DOT, "txt">>>>
            :> File(<<"old", SP, "secret">>))

\* The site with a file pages/ping the process may not read and a directory
\* pages/api/create.
FsLocked ==
    [n \in DOMAIN FsSite \cup {Append(Pages, <<"api">>), Pages \o <<<<"api">>, <<"create">>>>} |->
        IF n = Append(Pages, <<"ping">>) THEN [FsSite[n] EXCEPT !.readable = FALSE]
        ELSE IF n \in DOMAIN FsSite THEN FsSite[n]
        ELSE Dir]

\* The scenarios.  "server": every connection slot is used and the clients send
\* a few requests; "session": one connection and the whole catalogue.
\* "shutdown", "framing", "config": the server of main.go with two clients.
ClientsOf(sc) ==
    IF sc = "server" THEN Conns
    ELSE IF sc \in {"shutdown", "framing", "config", "static"} THEN {c \in Conns : c <= 2}
    ELSE IF sc = "session" THEN {1}
    ELSE {}

MenuOf(sc) ==
    IF sc = "server" THEN {"ping", "panic", "bad", "create"}
    ELSE IF sc = "session" THEN DOMAIN Catalogue \ FramingOnly
    ELSE IF sc = "shutdown" THEN {"ping"}
    ELSE IF sc = "framing" THEN FramingOnly \cup {"ping", "create"}
    ELSE IF sc = "config" THEN {"ping", "pingClose", "user", "nope", "bad", "create"}
    ELSE IF sc = "static" THEN {"ping", "root", "user", "nope", "create", "escape"}
    ELSE {}

FileSystemsOf(sc) ==
    IF sc = "session" THEN {FsNone, FsSite}
    ELSE IF sc = "static" THEN {FsNone, FsSite, FsLocked}
    ELSE {FsNone}

\* "config": a Router made by NewRouterWithConfig with keep-alive switched off.
ConfigsOf(sc) ==
    IF sc = "config" THEN {[DefaultConfig EXCEPT !.EnableKeepAlive = FALSE]}
    ELSE {DefaultConfig}

(***************************************************************************)
(* The shutdown of main.go.                                                *)
(*   ctxDone       the context of signal.NotifyContext is done              *)
(*   hasTLS        server.crt and server.key were found and loaded          *)
(*   tlsAccepting  the accept loop of the TLS listener is running           *)
(*   now           the seconds since the signal                             *)
(*   wake          the second time.Sleep returns at                         *)
(*   late          history: the connections accepted after the signal       *)
(*   inFlight      history: the connections whose handler was running when  *)
(*                 the signal came                                          *)
(***************************************************************************)
GracePeriod == 2        \* time.Sleep(2 * time.Second)
MaxClock == 3           \* seconds the clock counts after the signal

Running ==
    [ctxDone |-> FALSE, hasTLS |-> FALSE, tlsAccepting |-> FALSE, now |-> 0, wake |-> 0,
     late |-> {}, inFlight |-> {}]

ShutdownsOf(sc) ==
    IF sc = "shutdown" THEN {[Running EXCEPT !.hasTLS = b] : b \in BOOLEAN} ELSE {Running}

\* The positions of main() after its Register calls: starting the accept
\* loops, waiting on ctx.Done(), closing the listener, closing the TLS listener
\* and going to sleep, sleeping, returned.
AtServe == Len(MainRoutes) + 1
AtWait == Len(MainRoutes) + 2
AtClose == Len(MainRoutes) + 3
AtCloseTLS == Len(MainRoutes) + 4
AtSleep == Len(MainRoutes) + 5
AtExit == Len(MainRoutes) + 6

(***************************************************************************)
(* The state of one connection.                                            *)
(*   pc      "idle" (not accepted yet), "read" (in readHTTPRequest), "body" *)
(*           (in the loop of readRemainingBody), "dispatch" (the handler is *)
(*           running), "closed" (RunConnection has returned)                *)
(*   inbox   the chunks the client has written and the server has not read  *)
(*   hbuf    headerBuffer of readHTTPRequest                                *)
(*   cur     the locals of processRequest for the request in progress       *)
(*   sent    history: the catalogue request in progress, "none" when the    *)
(*           bytes being read do not start at the start of a request        *)
(*   calls   history: the handler calls made for the request in progress    *)
(*   written history: the conn.Write calls made for it: the bytes and       *)
(*           whether the write succeeded                                    *)
(*   wrote   history: the last step of the connection ended in conn.Write   *)
(*   last    history: how the last conn.Read of the connection failed: ""    *)
(*           (it returned data), "too large" (readHTTPRequest gave up before *)
(*           it), "error", "zero" (no bytes, no error) in readHTTPRequest,   *)
(*           "body error", "body zero" in readRemainingBody                 *)
(***************************************************************************)
NoCur == [method |-> <<>>, pathBytes |-> <<>>, headerMap |-> EmptyMap, bodyData |-> <<>>,
          need |-> 0, got |-> <<>>, handler |-> "", req |-> <<>>]

IdleConn == [pc |-> "idle", inbox |-> <<>>, hbuf |-> <<>>, cur |-> NoCur,
             sent |-> "none", calls |-> <<>>, written |-> <<>>, wrote |-> FALSE,
             last |-> ""]

\* A loop body that writes its response twice.
WrittenTwice(k, bytes, shouldClose, ok) ==
    [k EXCEPT !.pc = IF shouldClose THEN "closed" ELSE "read",
              !.hbuf = <<>>, !.cur = NoCur,
              !.written = @ \o <<[bytes |-> bytes, ok |-> ok], [bytes |-> bytes, ok |-> ok]>>,
              !.wrote = TRUE]

\* conn.Write(responseBytes) and the end of the loop body: the result of the
\* write is not looked at; the loop is left when shouldClose is set.
Written(k, bytes, shouldClose, ok) ==
    [k EXCEPT !.pc = IF shouldClose THEN "closed" ELSE "read",
              !.hbuf = <<>>, !.cur = NoCur,
              !.written = Append(@, [bytes |-> bytes, ok |-> ok]),
              !.wrote = TRUE]

\* The rest of processRequest once the body is known, and the write that
\* follows: the states the connection can be in next.
Routed(k, bodyData) ==
    {IF t.kind = "call"
     THEN [k EXCEPT !.pc = "dispatch", !.cur.bodyData = bodyData,
                    !.cur.handler = t.handler, !.cur.req = t.req,
                    !.calls = Append(@, [handler |-> t.handler, req |-> t.req])]
     ELSE Written(k, t.bytes, ShouldClose(k.cur.headerMap), ok)
       : t \in RouteParsed(files, routes, k.cur.method, k.cur.pathBytes,
                           k.cur.headerMap, bodyData),
         ok \in BOOLEAN}

\* processRequest on the bytes readHTTPRequest returned.
Processed(k, requestData) ==
    LET h    == ParseHead(requestData)
        need == RemainingBytes(h.headerMap, h.bodyData)
        k2   == [k EXCEPT !.cur = [NoCur EXCEPT !.method = h.method,
                                                !.pathBytes = h.pathBytes,
                                                !.headerMap = h.headerMap,
                                                !.bodyData = h.bodyData,
                                                !.need = need]]
    IN  IF ~h.ok THEN {Written(k, BadRequestLine.bytes, TRUE, ok) : ok \in BOOLEAN}
        ELSE IF need > 0 THEN {[k2 EXCEPT !.pc = "body"]}
        ELSE Routed(k2, h.bodyData)

\* RunConnection returns and the deferred conn.Close runs.
Closed(k) == [k EXCEPT !.pc = "closed", !.hbuf = <<>>, !.cur = NoCur, !.wrote = FALSE]

\* What a conn.Read of at most n bytes can return when it returns data: the head
\* of the inbox, or, with an empty inbox, the first chunk of a request the
\* client writes now.  [data, inbox, sent].
Incoming(k, n) ==
    IF k.inbox # <<>>
    THEN LET data == TakeBytes(Head(k.inbox), n)
             left == DropBytes(Head(k.inbox), n)
         IN  {[data |-> data,
               inbox |-> IF left = <<>> THEN Tail(k.inbox) ELSE <<left>> \o Tail(k.inbox),
               sent |-> "none"]}
    ELSE {[data |-> TakeBytes(Head(Catalogue[q].wire), n),
           inbox |-> Tail(Catalogue[q].wire),
           sent |-> IF k.hbuf = <<>> THEN q ELSE "none"] : q \in MenuOf(scenario)}

(***************************************************************************)
(* Actions.                                                                *)
(***************************************************************************)
\* main.go: the next Register call of main.
MainRegister ==
    /\ alive
    /\ mainPc \in 1..Len(MainRoutes)
    /\ routes' = RegisterRoute(routes, MainRoutes[mainPc][1], MainRoutes[mainPc][2],
                               MainRoutes[mainPc][3])
    /\ regOrder' = Append(regOrder, MainRoutes[mainPc])
    /\ mainPc' = mainPc + 1
    /\ UNCHANGED <<scenario, alive, accepting, files, conn, probe, config, shut, mu, pools>>

\* main.go: the accept loops are started, the TLS one if there is a TLS
\* listener.
Serve ==
    /\ alive
    /\ mainPc = AtServe
    /\ mainPc' = AtWait
    /\ accepting' = TRUE
    /\ shut' = [shut EXCEPT !.tlsAccepting = shut.hasTLS]
    /\ UNCHANGED <<scenario, routes, regOrder, alive, files, conn, probe, config, mu, pools>>

\* An accept loop is handed connection c: RunConnection is started for it on a
\* goroutine of its own.  The loop does not look at the context before it does.
Accepted(c) ==
    /\ c \in ClientsOf(scenario)
    /\ conn[c].pc = "idle"
    /\ conn' = [conn EXCEPT ![c].pc = "read"]
    /\ shut' = [shut EXCEPT !.late = IF shut.ctxDone THEN @ \cup {c} ELSE @]
    /\ UNCHANGED <<scenario, routes, regOrder, mainPc, alive, accepting, files, probe, config,
                   mu, pools>>

\* main.go: listener.Accept returns a connection.
Accept(c) == alive /\ accepting /\ Accepted(c)

\* main.go: tlsListener.Accept returns a connection.
AcceptTLS(c) == alive /\ shut.tlsAccepting /\ Accepted(c)

\* The process receives SIGINT or SIGTERM: the context is done.
Signal ==
    /\ alive
    /\ scenario = "shutdown"
    /\ ~shut.ctxDone
    /\ shut' = [shut EXCEPT !.ctxDone = TRUE,
                            !.inFlight = {c \in Conns : conn[c].pc = "dispatch"}]
    /\ UNCHANGED <<scenario, routes, regOrder, mainPc, alive, accepting, files, conn, probe,
                   config, mu, pools>>

\* main.go: <-ctx.Done() returns.
AwaitDone ==
    /\ alive
    /\ mainPc = AtWait
    /\ shut.ctxDone
    /\ mainPc' = AtClose
    /\ UNCHANGED <<scenario, routes, regOrder, alive, accepting, files, conn, probe, config,
                   shut, mu, pools>>

\* main.go: listener.Close(); a pending and every later Accept fails and the
\* accept loop, finding the context done, returns.
CloseListener ==
    /\ alive
    /\ mainPc = AtClose
    /\ mainPc' = AtCloseTLS
    /\ accepting' = FALSE
    /\ UNCHANGED <<scenario, routes, regOrder, alive, files, conn, probe, config, shut, mu,
                   pools>>

\* A sleep that returns at once.
WakeNow(now) == now

\* The second a time.Sleep of the grace period that starts now returns at.
WakeAt(now) == now + GracePeriod

\* main.go: tlsListener.Close() if there is a TLS listener, then time.Sleep
\* begins.
CloseTLS ==
    /\ alive
    /\ mainPc = AtCloseTLS
    /\ mainPc' = AtSleep
    /\ shut' = [shut EXCEPT !.tlsAccepting = FALSE, !.wake = WakeAt(shut.now)]
    /\ UNCHANGED <<scenario, routes, regOrder, alive, accepting, files, conn, probe, config,
                   mu, pools>>

\* main.go: time.Sleep has returned and main returns: the process exits and
\* with it every goroutine.
Exit ==
    /\ alive
    /\ mainPc = AtSleep
    /\ shut.now >= shut.wake
    /\ mainPc' = AtExit
    /\ alive' = FALSE
    /\ accepting' = FALSE
    /\ UNCHANGED <<scenario, routes, regOrder, files, conn, probe, config, shut, mu, pools>>

\* A second passes.
Tick ==
    /\ alive
    /\ shut.ctxDone
    /\ shut.now < MaxClock
    /\ shut' = [shut EXCEPT !.now = @ + 1]
    /\ UNCHANGED <<scenario, routes, regOrder, mainPc, alive, accepting, files, conn, probe,
                   config, mu, pools>>

\* A Frame Reader without a limit.
HeadersUnlimited(headerBuffer) == FALSE

\* readHTTPRequest, before each read: the accumulated length against the limit.
HeadersTooLarge(headerBuffer) == ByteLen(headerBuffer) > MaxHeaderSize

\* Whether a conn.Read may return no bytes and no error.  A TCP or TLS
\* connection of main.go never does (it returns io.EOF); RunConnection takes any
\* net.Conn, and a net.Pipe returns 0, nil for an empty write of its peer.
ZeroReads(sc) == sc = "session"

\* One turn of the loop of readHTTPRequest, and, when the header block is
\* complete, processRequest up to its next blocking call.  The accumulated
\* length is checked first; the read fails (peer closed, deadline passed) or
\* returns data or nothing; the data is appended and the end marker searched
\* for.
Read(c) ==
    LET k == conn[c]
    IN  /\ alive
        /\ k.pc = "read"
        /\ IF HeadersTooLarge(k.hbuf)
           THEN conn' = [conn EXCEPT ![c] = [Closed(k) EXCEPT !.last = "too large"]]
           ELSE \/ conn' = [conn EXCEPT ![c] = [Closed(k) EXCEPT !.last = "error"]]
                \/ /\ ZeroReads(scenario)
                   /\ conn' = [conn EXCEPT ![c].last = "zero", ![c].wrote = FALSE]
                \/ \E in \in Incoming(k, ChunkSize) :
                      LET k2 == [k EXCEPT !.inbox = in.inbox,
                                          !.hbuf = k.hbuf \o in.data,
                                          !.sent = in.sent,
                                          !.calls = IF k.hbuf = <<>> THEN <<>> ELSE @,
                                          !.written = IF k.hbuf = <<>> THEN <<>> ELSE @,
                                          !.wrote = FALSE,
                                          !.last = ""]
                      IN  IF Contains(k2.hbuf, EndMarker)
                          THEN \E k3 \in Processed(k2, k2.hbuf) :
                                  conn' = [conn EXCEPT ![c] = k3]
                          ELSE conn' = [conn EXCEPT ![c] = k2]
        /\ UNCHANGED <<scenario, routes, regOrder, mainPc, alive, accepting, files, probe, config, shut, mu, pools>>

\* One turn of the loop of readRemainingBody.  A failed read ends the loop with
\* the body as it was before the loop; a read of no bytes changes nothing; a
\* read that completes the body appends what the loop read.  processRequest
\* then goes on.
ReadBody(c) ==
    LET k == conn[c]
    IN  /\ alive
        /\ k.pc = "body"
        /\ \/ \E k3 \in Routed([k EXCEPT !.last = "body error"], k.cur.bodyData) :
                 conn' = [conn EXCEPT ![c] = k3]
           \/ /\ ZeroReads(scenario)
              /\ conn' = [conn EXCEPT ![c].last = "body zero"]
           \/ /\ k.inbox # <<>>
              /\ \E in \in Incoming(k, k.cur.need - ByteLen(k.cur.got)) :
                    LET k2 == [k EXCEPT !.inbox = in.inbox, !.cur.got = @ \o in.data,
                                        !.last = ""]
                    IN  IF ByteLen(k2.cur.got) < k.cur.need
                        THEN conn' = [conn EXCEPT ![c] = k2]
                        ELSE \E k3 \in Routed(k2, k.cur.bodyData \o k2.cur.got) :
                                conn' = [conn EXCEPT ![c] = k3]
        /\ UNCHANGED <<scenario, routes, regOrder, mainPc, alive, accepting, files, probe, config, shut, mu, pools>>

\* RunConnection without its deferred recover: the panic of the handler ends
\* the process.
RecoverNone(c) ==
    /\ conn' = [conn EXCEPT ![c] = Closed(conn[c])]
    /\ alive' = FALSE

\* The handler panics: HandleBytes, routeRequest and processRequest are unwound,
\* the deferred function of RunConnection recovers, writes the 500 response and
\* RunConnection returns, which closes the connection.
Recover(c) ==
    /\ \E ok \in BOOLEAN :
          conn' = [conn EXCEPT ![c] = Written(conn[c], PanicResponse.bytes, TRUE, ok)]
    /\ UNCHANGED alive

\* The handler returns or panics.  On a return its bytes are written and the
\* loop goes on or ends as the Connection header says.
Dispatch(c) ==
    LET k == conn[c]
        r == RunHandler(k.cur.handler, k.cur.req)
    IN  /\ alive
        /\ k.pc = "dispatch"
        /\ IF r.panics
           THEN Recover(c)
           ELSE /\ \E ok \in BOOLEAN :
                      conn' = [conn EXCEPT ![c] =
                                  Written(k, r.bytes, ShouldClose(k.cur.headerMap), ok)]
                /\ UNCHANGED alive
        /\ UNCHANGED <<scenario, routes, regOrder, mainPc, accepting, files, probe, config, shut, mu, pools>>

NoProbe == [op |-> "none"]

NLook == 2              \* goroutines that call HandleBytes at the same time

Lookers == 1..NLook

\* Router.mu with no holder and no goroutine in Register or HandleBytes.
\*   writer     a goroutine holds mu.Lock
\*   readers    the goroutines that hold mu.RLock
\*   reg        the Register call under way: "idle" (none), "w0" (in mu.Lock),
\*              "w1" (holds the Lock), "w2" (the method's map is there), "w3"
\*              (the handler is stored); n counts the calls that returned;
\*              caller is 0 for a goroutine of its own and t for the handler
\*              that HandleBytes runs in goroutine t; pending, history: the
\*              goroutines whose handler was running when Register was called
\*              and has not returned since; since, history: the goroutines
\*              whose handler had panicked when Register was called
\*   returned   history: the callers whose Register call has returned
\*   panicked   history: the goroutines whose handler has panicked
\*   look       the goroutines that call HandleBytes: "idle", "r1" (hold the first
\*              RLock), "gap" (between the two), "r2" (hold the second RLock),
\*              "handler" (the handler runs, the RLock still held); saw is the
\*              table as they last read it
\*   committed  history: the tables there were whenever mu was not write-locked
Unlocked ==
    [writer |-> FALSE, readers |-> 0,
     reg |-> [pc |-> "idle", n |-> 0, method |-> <<>>, path |-> <<>>, handler |-> "",
              caller |-> 0, pending |-> {}, since |-> {}],
     returned |-> {}, panicked |-> {},
     look |-> [t \in Lookers |->
                  [pc |-> "idle", method |-> <<>>, path |-> <<>>, saw |-> NewRouter,
                   result |-> NotFound]],
     committed |-> {NewRouter}]

\* The buffer pools before their first Put, no goroutine holding a buffer.
\*   request, response  the capacities of the buffers in requestBufferPool and
\*                      in responseBufferPool (bags)
\*   hold               per goroutine, the buffer it has taken and not put back
\*   dropped            history: the capacities of the buffers not put back
NoBuffer == [kind |-> "none", orig |-> 0, cap |-> 0, len |-> 0]

EmptyPools ==
    [request |-> EmptyBag, response |-> EmptyBag, hold |-> [g \in Conns |-> NoBuffer],
     dropped |-> {}]

InitServer(sc) ==
    /\ scenario = sc
    /\ routes = NewRouter
    /\ regOrder = <<>>
    /\ mainPc = 1
    /\ alive = TRUE
    /\ accepting = FALSE
    /\ files \in FileSystemsOf(sc)
    /\ conn = [c \in Conns |-> IdleConn]
    /\ probe = NoProbe
    /\ config \in ConfigsOf(sc)
    /\ shut \in ShutdownsOf(sc)
    /\ mu = Unlocked
    /\ pools = EmptyPools

Init == InitServer("server")

Next ==
    \/ MainRegister
    \/ Serve
    \/ \E c \in Conns : Accept(c)
    \/ \E c \in Conns : Read(c)
    \/ \E c \in Conns : ReadBody(c)
    \/ \E c \in Conns : Dispatch(c)

\* The server with NConn clients.
Spec == Init /\ [][Next]_vars

InitSession == InitServer("session")

\* One connection, the whole catalogue of requests, with and without a site.
SpecSession == InitSession /\ [][Next]_vars

InitFraming == InitServer("framing")

\* Two connections and requests whose bytes run past or fall short of their
\* frame.
SpecFraming == InitFraming /\ [][Next]_vars

InitConfig == InitServer("config")

\* Two connections to a server whose Config has EnableKeepAlive false.
SpecConfig == InitConfig /\ [][Next]_vars

InitStatic == InitServer("static")

\* Two connections to a server with no pages directory, with a site, and with
\* a site it cannot read all of.
SpecStatic == InitStatic /\ [][Next]_vars

InitShutdown == InitServer("shutdown")

NextShutdown ==
    \/ MainRegister
    \/ Serve
    \/ \E c \in Conns : Accept(c)
    \/ \E c \in Conns : AcceptTLS(c)
    \/ \E c \in Conns : Read(c)
    \/ \E c \in Conns : Dispatch(c)
    \/ Signal
    \/ AwaitDone
    \/ CloseListener
    \/ CloseTLS
    \/ Exit
    \/ Tick

\* The server of main.go, its clients and the shutdown signal.
SpecShutdown == InitShutdown /\ [][NextShutdown]_vars

(***************************************************************************)
(* The Route Table on its own: any program's Register calls and lookups.   *)
(***************************************************************************)
MaxRoutes == 3          \* Register calls of a run

\* The handler of the n-th Register call.
HandlerNames == <<"h1", "h2", "h3", "h4", "h5", "h6">>

RouteMethods == {GET, POST}

RoutePatterns ==
    {<<"/", "users", "/", ":", "id">>,
     <<"/", "users", "/", ":", "name">>,
     <<"/", "users", "/", "me">>}

LookupPaths ==
    {<<"/", "users", "/", "42">>,
     <<"/", "users", "/", "me">>,
     <<"/", "users", "/", ":", "id">>,
     <<"/", "nope">>}

\* Router.Register, called by any program.
Register(method, path) ==
    /\ scenario \in {"router", "slashes"}
    /\ Len(regOrder) < MaxRoutes
    /\ routes' = RegisterRoute(routes, method, path, HandlerNames[Len(regOrder) + 1])
    /\ regOrder' = Append(regOrder, <<method, path, HandlerNames[Len(regOrder) + 1]>>)
    /\ probe' = NoProbe
    /\ UNCHANGED <<scenario, mainPc, alive, accepting, files, conn, config, shut, mu, pools>>

\* The lookup of Router.HandleBytes for a method and a path.
Lookup(method, path) ==
    /\ scenario \in {"router", "slashes"}
    /\ \E m \in Resolve(routes, method, path) :
          probe' = [op |-> "resolve", method |-> method, path |-> path, result |-> m]
    /\ UNCHANGED <<scenario, routes, regOrder, mainPc, alive, accepting, files, conn, config, shut, mu, pools>>

InitPure(sc, inputs) ==
    /\ scenario = sc
    /\ routes = NewRouter
    /\ regOrder = <<>>
    /\ mainPc = 1
    /\ alive = TRUE
    /\ accepting = FALSE
    /\ files = FsNone
    /\ conn = [c \in Conns |-> IdleConn]
    /\ probe \in inputs
    /\ config = DefaultConfig
    /\ shut = Running
    /\ mu = Unlocked
    /\ pools = EmptyPools

InitRoute == InitPure("router", {NoProbe})

NextRoute ==
    \/ \E method \in RouteMethods, path \in RoutePatterns : Register(method, path)
    \/ \E method \in RouteMethods, path \in LookupPaths : Lookup(method, path)

SpecRoute == InitRoute /\ [][NextRoute]_vars

\* Routes without captures next to a pattern of one capture, and paths with
\* slashes added at their end or made of slashes only.
SlashPatterns ==
    {<<"/", "ping">>, <<"/", "users", "/", "me">>, <<"/", ":", "id">>}

SlashPaths ==
    {<<"/", "ping">>, <<"/", "ping", "/">>, <<"/", "ping", "/", "/">>,
     <<"/", "users", "/", "me", "/">>, <<"/">>, <<"/", "/">>, <<"/", "nope", "/", "x">>}

InitSlash == InitPure("slashes", {NoProbe})

NextSlash ==
    \/ \E path \in SlashPatterns : Register(GET, path)
    \/ \E path \in SlashPaths : Lookup(GET, path)

SpecSlash == InitSlash /\ [][NextSlash]_vars

(***************************************************************************)
(* Router.mu: Register and HandleBytes called from goroutines of their own. *)
(***************************************************************************)
MaxRegs == 2            \* Register calls of a run

LockPatterns == {<<"/", "users", "/", ":", "id">>, <<"/", "users", "/", "me">>}

LockPaths == {<<"/", "users", "/", "42">>, <<"/", "users", "/", "me">>}

\* An RLock that does not wait for the holder of the Lock.
CanRLockAlways(m) == TRUE

\* A Lock that does not wait for the holders of the read lock.
CanLockOverReaders(m) == ~m.writer

\* mu.Lock returns when nobody holds mu; mu.RLock when no writer holds it and
\* none waits in Lock (sync.RWMutex keeps new readers out while a Lock call is
\* pending).
CanLock(m) == ~m.writer /\ m.readers = 0

CanRLock(m) == ~m.writer /\ m.reg.pc # "w0"

\* The goroutines whose handler is running, the read lock of HandleBytes held.
InHandler(m) == {t \in Lookers : m.look[t].pc = "handler" /\ m.look[t].result.found}

\* Register is called, by a goroutine of its own (who = 0) or, in the scenario
\* "locks", by the handler running in goroutine who: it is in r.mu.Lock().
RegCall(who) ==
    /\ scenario \in {"locks", "panics"}
    /\ mu.reg.pc = "idle"
    /\ mu.reg.n < MaxRegs
    /\ IF who = 0 THEN TRUE ELSE scenario = "locks" /\ who \in InHandler(mu)
    /\ \E method \in {GET}, path \in LockPatterns :
          mu' = [mu EXCEPT !.reg = [pc |-> "w0", n |-> mu.reg.n, method |-> method,
                                    path |-> path, handler |-> HandlerNames[mu.reg.n + 1],
                                    caller |-> who, pending |-> InHandler(mu),
                                    since |-> mu.panicked]]
    /\ UNCHANGED <<scenario, routes, regOrder, mainPc, alive, accepting, files, conn, probe,
                   config, shut, pools>>

\* Register, r.mu.Lock() returns.
RegLock ==
    /\ mu.reg.pc = "w0"
    /\ CanLock(mu)
    /\ mu' = [mu EXCEPT !.writer = TRUE, !.reg.pc = "w1"]
    /\ UNCHANGED <<scenario, routes, regOrder, mainPc, alive, accepting, files, conn, probe,
                   config, shut, pools>>

\* Register, the map of the method is made if it is not there.
RegMake ==
    /\ mu.reg.pc = "w1"
    /\ routes' = IF mu.reg.method \in DOMAIN routes THEN routes
                 ELSE Put(routes, mu.reg.method, EmptyMap)
    /\ mu' = [mu EXCEPT !.reg.pc = "w2"]
    /\ UNCHANGED <<scenario, regOrder, mainPc, alive, accepting, files, conn, probe, config,
                   shut, pools>>

\* Register, r.routes[method][path] = handler.
RegStore ==
    /\ mu.reg.pc = "w2"
    /\ routes' = RegisterRoute(routes, mu.reg.method, mu.reg.path, mu.reg.handler)
    /\ regOrder' = Append(regOrder, <<mu.reg.method, mu.reg.path, mu.reg.handler>>)
    /\ mu' = [mu EXCEPT !.reg.pc = "w3"]
    /\ UNCHANGED <<scenario, mainPc, alive, accepting, files, conn, probe, config, shut,
                   pools>>

\* Register, the deferred r.mu.Unlock().
RegUnlock ==
    /\ mu.reg.pc = "w3"
    /\ mu' = [mu EXCEPT !.writer = FALSE, !.reg.pc = "idle", !.reg.n = @ + 1,
                        !.returned = @ \cup {mu.reg.caller},
                        !.committed = @ \cup {routes}]
    /\ UNCHANGED <<scenario, routes, regOrder, mainPc, alive, accepting, files, conn, probe,
                   config, shut, pools>>

\* HandleBytes, the first r.mu.RLock().
LookRLock(t) ==
    /\ scenario \in {"locks", "panics"}
    /\ mu.look[t].pc = "idle"
    /\ CanRLock(mu)
    /\ \E method \in {GET}, path \in LockPaths :
          mu' = [mu EXCEPT !.readers = @ + 1,
                           !.look[t] = [pc |-> "r1", method |-> method, path |-> path,
                                        saw |-> NewRouter, result |-> NotFound]]
    /\ UNCHANGED <<scenario, routes, regOrder, mainPc, alive, accepting, files, conn, probe,
                   config, shut, pools>>

\* HandleBytes, methodRoutes, exists := r.routes[method] and r.mu.RUnlock();
\* without a map for the method it returns the 404.
LookMethod(t) ==
    /\ mu.look[t].pc = "r1"
    /\ mu' = [mu EXCEPT !.readers = @ - 1,
                        !.look[t].saw = routes,
                        !.look[t].pc = IF mu.look[t].method \in DOMAIN routes
                                       THEN "gap" ELSE "idle"]
    /\ UNCHANGED <<scenario, routes, regOrder, mainPc, alive, accepting, files, conn, probe,
                   config, shut, pools>>

\* HandleBytes, the second r.mu.RLock().
LookRLock2(t) ==
    /\ mu.look[t].pc = "gap"
    /\ CanRLock(mu)
    /\ mu' = [mu EXCEPT !.readers = @ + 1, !.look[t].pc = "r2"]
    /\ UNCHANGED <<scenario, routes, regOrder, mainPc, alive, accepting, files, conn, probe,
                   config, shut, pools>>

\* HandleBytes, the lookup in methodRoutes; methodRoutes is a reference to the
\* map of the method, so what is read is what the map holds now.
LookFind(t) ==
    /\ mu.look[t].pc = "r2"
    /\ \E m \in Resolve(routes, mu.look[t].method, mu.look[t].path) :
          mu' = [mu EXCEPT !.look[t].saw = routes,
                           !.look[t].result = m,
                           !.look[t].pc = "handler"]
    /\ UNCHANGED <<scenario, routes, regOrder, mainPc, alive, accepting, files, conn, probe,
                   config, shut, pools>>

\* HandleBytes returns (the 404 or what the handler returned): the deferred
\* r.mu.RUnlock().
LookReturn(t) ==
    /\ mu.look[t].pc = "handler"
    /\ ~(mu.reg.pc # "idle" /\ mu.reg.caller = t)
    /\ mu' = [mu EXCEPT !.readers = @ - 1, !.look[t].pc = "idle",
                        !.reg.pending = @ \ {t}]
    /\ UNCHANGED <<scenario, routes, regOrder, mainPc, alive, accepting, files, conn, probe,
                   config, shut, pools>>

\* A handler panic that unwinds HandleBytes without its deferred RUnlock.
UnwoundLocked(m, t) ==
    [m EXCEPT !.look[t].pc = "idle", !.reg.pending = @ \ {t},
              !.panicked = @ \cup {t}]

\* The panic of a handler unwinds HandleBytes: its deferred r.mu.RUnlock()
\* runs; the deferred function of RunConnection recovers and RunConnection
\* returns.
Unwound(m, t) ==
    [m EXCEPT !.readers = @ - 1, !.look[t].pc = "idle", !.reg.pending = @ \ {t},
              !.panicked = @ \cup {t}]

\* The handler panics.
LookPanic(t) ==
    /\ mu.look[t].pc = "handler"
    /\ mu.look[t].result.found
    /\ ~(mu.reg.pc # "idle" /\ mu.reg.caller = t)
    /\ mu' = Unwound(mu, t)
    /\ UNCHANGED <<scenario, routes, regOrder, mainPc, alive, accepting, files, conn, probe,
                   config, shut, pools>>

InitLock == InitPure("locks", {NoProbe})

NextLock ==
    \/ \E who \in {0} \cup Lookers : RegCall(who)
    \/ RegLock
    \/ RegMake
    \/ RegStore
    \/ RegUnlock
    \/ \E t \in Lookers : LookRLock(t)
    \/ \E t \in Lookers : LookMethod(t)
    \/ \E t \in Lookers : LookRLock2(t)
    \/ \E t \in Lookers : LookFind(t)
    \/ \E t \in Lookers : LookReturn(t)
    \/ \E t \in Lookers : LookPanic(t)

SpecLock == InitLock /\ [][NextLock]_vars

InitPanics == InitPure("panics", {NoProbe})

\* Handlers that return or panic and never call Register, and a scheduler that
\* runs some goroutine whenever one can run.
SpecPanics == InitPanics /\ [][NextLock]_vars /\ WF_vars(NextLock)

(***************************************************************************)
(* The buffer pools: readHTTPRequest and CreateResponseBytes called from   *)
(* goroutines of their own.  A sync.Pool hands out a buffer it holds or a  *)
(* new one.  Capacities grow as the Go runtime grows them, the rounding up *)
(* to an allocation size class left out.                                   *)
(***************************************************************************)
maxPoolBufferSize == 16384
RequestBufferSize == 8192       \* make([]byte, 8192) of requestBufferPool.New
MaxPooled == 2                  \* buffers a pool keeps; it may drop any other

\* The goroutines that use the pools.
PoolUsers == {g \in Conns : g <= 2}

\* A pool that takes back every buffer.
RetainAll(capacity) == TRUE

\* The test of the deferred functions: the buffer goes back to its pool.
Retain(capacity) == capacity <= maxPoolBufferSize

\* append on a []byte of capacity c that must hold need bytes (runtime.growslice).
RECURSIVE GrowBy(_, _)
GrowBy(c, need) == IF c >= need THEN c ELSE GrowBy(c + ((c + 768) \div 4), need)

AppendCap(c, need) ==
    IF need <= c THEN c
    ELSE IF need > 2 * c THEN need
    ELSE IF c < 256 THEN 2 * c
    ELSE GrowBy(c, need)

\* bytes.Buffer: the capacity after n bytes are written to a reset buffer that
\* holds len bytes (Buffer.grow).
BufferCap(c, len, n) ==
    IF n <= c - len THEN c
    ELSE IF c = 0 /\ n <= 64 THEN 64
    ELSE IF n <= (c \div 2) - len THEN c
    ELSE IF len + n < 2 * c THEN 2 * c ELSE len + n

\* The lengths of the pieces CreateResponseBytes writes, in order.
Pieces(statusCode, contentType, statusMessage, body) ==
    <<9, ByteLen(statusCode), 1, ByteLen(statusMessage), 16, ByteLen(contentType), 24, 18,
      ByteLen(Itoa(ByteLen(body))), 4, ByteLen(body)>>

RECURSIVE WriteAll(_, _, _)
WriteAll(c, len, pieces) ==
    IF pieces = <<>> THEN c
    ELSE WriteAll(BufferCap(c, len, Head(pieces)), len + Head(pieces), Tail(pieces))

\* The bodies of the responses built: pong, 8 KiB and 20 KiB.
PoolBodies == {<<"pong">>, <<Fill, Fill>>, <<Fill, Fill, Fill, Fill, Fill>>}

\* sync.Pool.Put: the pool keeps the buffer, or lets it go (a sync.Pool may
\* drop what it holds at any garbage collection).
Kept(pool, capacity) ==
    IF BagCardinality(pool) < MaxPooled THEN pool (+) SetToBag({capacity}) ELSE pool

\* sync.Pool.Get: a buffer of the pool, or a new one.
Taken(pool, new) ==
    {[cap |-> c, rest |-> pool (-) SetToBag({c})] : c \in BagToSet(pool)}
    \cup {[cap |-> new, rest |-> pool]}

\* readHTTPRequest, requestBufferPool.Get and headerBuffer := (*bufPtr)[:0].
RequestGet(g) ==
    /\ scenario = "pool"
    /\ pools.hold[g].kind = "none"
    /\ \E b \in Taken(pools.request, RequestBufferSize) :
          pools' = [pools EXCEPT !.request = b.rest,
                                 !.hold[g] = [kind |-> "request", orig |-> b.cap,
                                              cap |-> b.cap, len |-> 0]]
    /\ UNCHANGED <<scenario, routes, regOrder, mainPc, alive, accepting, files, conn, probe,
                   config, shut, mu>>

\* readHTTPRequest, a turn of its loop that reads a full chunk with no end
\* marker in it.
RequestAppend(g) ==
    /\ pools.hold[g].kind = "request"
    /\ pools.hold[g].len <= MaxHeaderSize
    /\ pools' = [pools EXCEPT
                    !.hold[g].len = @ + ChunkSize,
                    !.hold[g].cap = AppendCap(@, pools.hold[g].len + ChunkSize)]
    /\ UNCHANGED <<scenario, routes, regOrder, mainPc, alive, accepting, files, conn, probe,
                   config, shut, mu>>

\* readHTTPRequest returns (end marker found, read error or headers too
\* large): the deferred function puts bufPtr, the buffer as it was taken, back
\* if the capacity of headerBuffer allows.
RequestPut(g) ==
    /\ pools.hold[g].kind = "request"
    /\ pools' = IF Retain(pools.hold[g].cap)
                THEN [pools EXCEPT !.request = Kept(@, pools.hold[g].orig),
                                   !.hold[g] = NoBuffer]
                ELSE [pools EXCEPT !.dropped = @ \cup {pools.hold[g].cap},
                                   !.hold[g] = NoBuffer]
    /\ UNCHANGED <<scenario, routes, regOrder, mainPc, alive, accepting, files, conn, probe,
                   config, shut, mu>>

\* CreateResponseBytes, responseBufferPool.Get, buf.Reset and the writes.
ResponseGet(g) ==
    /\ scenario = "pool"
    /\ pools.hold[g].kind = "none"
    /\ \E b \in Taken(pools.response, 0), body \in PoolBodies :
          pools' = [pools EXCEPT
                       !.response = b.rest,
                       !.hold[g] =
                           [kind |-> "response", orig |-> b.cap,
                            cap |-> WriteAll(b.cap, 0,
                                             Pieces(<<"200">>, TextPlain, <<"OK">>, body)),
                            len |-> ByteLen(CreateResponseBytes(<<"200">>, TextPlain, <<"OK">>,
                                                                body).bytes)]]
    /\ UNCHANGED <<scenario, routes, regOrder, mainPc, alive, accepting, files, conn, probe,
                   config, shut, mu>>

\* CreateResponseBytes returns: the deferred function puts buf back if its
\* capacity allows.
ResponsePut(g) ==
    /\ pools.hold[g].kind = "response"
    /\ pools' = IF Retain(pools.hold[g].cap)
                THEN [pools EXCEPT !.response = Kept(@, pools.hold[g].cap),
                                   !.hold[g] = NoBuffer]
                ELSE [pools EXCEPT !.dropped = @ \cup {pools.hold[g].cap},
                                   !.hold[g] = NoBuffer]
    /\ UNCHANGED <<scenario, routes, regOrder, mainPc, alive, accepting, files, conn, probe,
                   config, shut, mu>>

InitPool == InitPure("pool", {NoProbe})

NextPool ==
    \/ \E g \in PoolUsers : RequestGet(g)
    \/ \E g \in PoolUsers : RequestAppend(g)
    \/ \E g \in PoolUsers : RequestPut(g)
    \/ \E g \in PoolUsers : ResponseGet(g)
    \/ \E g \in PoolUsers : ResponsePut(g)

SpecPool == InitPool /\ [][NextPool]_vars

(***************************************************************************)
(* matchRoute on its own.                                                  *)
(***************************************************************************)
MaxSegments == 2        \* segments of the generated paths and patterns

PathSegments == {<<"a">>, <<"b">>, <<"1">>}

PatternSegments == {<<"a">>, <<"b">>, <<":", "x">>, <<":", "y">>}

RECURSIVE SlashJoin(_)
SlashJoin(segs) ==
    IF segs = <<>> THEN <<>> ELSE <<"/">> \o Head(segs) \o SlashJoin(Tail(segs))

SeqsUpTo(S, n) == UNION {[1..k -> S] : k \in 1..n}

\* The capture names of a pattern's segments, in order.
CaptureNames(segs) ==
    [i \in 1..Len(segs) |-> IF HasPrefix(segs[i], <<":">>) THEN Tail(segs[i]) ELSE <<>>]

DistinctCaptures(segs) ==
    \A i, j \in 1..Len(segs) :
        (i # j /\ HasPrefix(segs[i], <<":">>) /\ HasPrefix(segs[j], <<":">>))
            => CaptureNames(segs)[i] # CaptureNames(segs)[j]

\* The paths and the patterns as lists of segments; a pattern names each
\* capture once.
MatchPaths ==
    SeqsUpTo(PathSegments, MaxSegments)
    \cup {<< <<"a">>, <<"1">>, <<"b">>, <<"2">> >>, << <<"a">>, <<"1">>, <<"c">>, <<"2">> >>}

MatchPatterns ==
    {t \in SeqsUpTo(PatternSegments, MaxSegments) : DistinctCaptures(t)}
    \cup {<< <<"a">>, <<":", "x">>, <<"b">>, <<":", "y">> >>}

\* A call of matchRoute on the drawn path and pattern.
Match ==
    /\ scenario = "match"
    /\ probe.op = "input"
    /\ probe' = [op |-> "match", path |-> probe.path, pattern |-> probe.pattern,
                 result |-> matchRoute(SlashJoin(probe.path), SlashJoin(probe.pattern))]
    /\ UNCHANGED <<scenario, routes, regOrder, mainPc, alive, accepting, files, conn, config, shut, mu, pools>>

InitMatch ==
    InitPure("match", {[op |-> "input", path |-> path, pattern |-> pattern] :
                          path \in MatchPaths, pattern \in MatchPatterns})

NextMatch == Match

SpecMatch == InitMatch /\ [][NextMatch]_vars

(***************************************************************************)
(* The responses the engine produces, on their own.                        *)
(***************************************************************************)
MaxBodyAtoms == 3       \* atoms of the generated bodies and messages

BodyAtoms == {"a", "bc", CRLF}

Bodies == {<<>>} \cup SeqsUpTo(BodyAtoms, MaxBodyAtoms) \cup {<<"0123456789", "ab">>}

\* The responses of the Serve* helpers for a message.
Helpers(msg) ==
    {Serve400(msg), Serve401(msg), Serve403(msg), Serve405(<<"PUT">>, msg), Serve429(msg),
     Serve500(msg), Serve502(msg), Serve503(msg), Serve201(msg), Serve204, Serve301(msg),
     Serve302(msg)}

\* The responses processRequest, routeRequest, HandleBytes and the recover of
\* RunConnection build themselves, for a file of the given content.
EngineResponses(content) ==
    LET fs == (Pages :> Dir)
              @@ (Append(Pages, <<"404", DOT, "html">>) :> File(content))
              @@ (Append(Pages, <<"f", DOT, "txt">>) :> File(content))
    IN  {BadRequestLine, PanicResponse, serve404Bytes(FsNone), serve404Bytes(fs)}
        \cup {t : t \in UNION {routeRequest(f, NewRouter, GET, path, EmptyMap, EmptyMap, "")
                                 : f \in {fs, FsNone},
                                   path \in {<<"/", "f", DOT, "txt">>,
                                             <<"/", DOT, DOT, "/", "etc">>,
                                             <<"/", "nope">>}}}

\* The engine or a helper builds a response around the drawn body.
Respond ==
    /\ scenario = "respond"
    /\ probe.op = "input"
    /\ \E r \in Helpers(probe.body) \cup {Reply(e) : e \in EngineResponses(probe.body)} :
          probe' = [op |-> "respond", body |-> probe.body, bytes |-> r.bytes,
                    status |-> r.status]
    /\ UNCHANGED <<scenario, routes, regOrder, mainPc, alive, accepting, files, conn, config, shut, mu, pools>>

\* CreateResponseBytes("200", "text/plain", "OK", body) for the drawn body.
Build ==
    /\ scenario = "respond"
    /\ probe.op = "input"
    /\ probe' = [op |-> "build", body |-> probe.body,
                 bytes |-> CreateResponseBytes(<<"200">>, TextPlain, <<"OK">>,
                                               probe.body).bytes,
                 status |-> CreateResponseBytes(<<"200">>, TextPlain, <<"OK">>,
                                                probe.body).status]
    /\ UNCHANGED <<scenario, routes, regOrder, mainPc, alive, accepting, files, conn, config,
                   shut, mu, pools>>

InitRespond == InitPure("respond", {[op |-> "input", body |-> body] : body \in Bodies})

NextRespond == Respond \/ Build

SpecRespond == InitRespond /\ [][NextRespond]_vars

(***************************************************************************)
(* The parser of form-encoded bodies and query strings, on its own.        *)
(***************************************************************************)
MaxPairs == 2           \* pieces between '&' of the generated inputs

\* A token as the client writes it and the text it stands for.
Token(wire, text) == [wire |-> wire, text |-> text]

KeyTokens ==
    {Token(<<"a">>, <<"a">>), Token(<<"b">>, <<"b">>),
     Token(<<"%", "4", "1">>, <<"A">>), Token(<<"%", "z", "z">>, <<"%", "z", "z">>)}

ValueTokens ==
    {Token(<<"1">>, <<"1">>), Token(<<"2">>, <<"2">>), Token(<<"b", "=", "c">>, <<"b", "=", "c">>),
     Token(<<"a", "+", "b">>, <<"a", SP, "b">>),
     Token(<<"%", "z", "z">>, <<"%", "z", "z">>)}

\* A piece of the input: key=value, or a piece without '='.
FormItems ==
    {[eq |-> TRUE, key |-> k, value |-> v] : k \in KeyTokens, v \in ValueTokens}
    \cup {[eq |-> FALSE, key |-> Token(w, w), value |-> Token(<<>>, <<>>)]
             : w \in {<<>>, <<"a">>}}

ItemWire(item) ==
    IF item.eq THEN item.key.wire \o <<"=">> \o item.value.wire ELSE item.key.wire

RECURSIVE FormWire(_)
FormWire(items) ==
    IF items = <<>> THEN <<>>
    ELSE IF Len(items) = 1 THEN ItemWire(items[1])
    ELSE ItemWire(items[1]) \o <<"&">> \o FormWire(Tail(items))

\* The parser reads the bytes of the drawn pieces.
ParseForm ==
    /\ scenario = "form"
    /\ probe.op = "input"
    /\ probe' = [op |-> "form", items |-> probe.items, data |-> FormWire(probe.items),
                 result |-> parseKeyValuePairsFromBytes(FormWire(probe.items))]
    /\ UNCHANGED <<scenario, routes, regOrder, mainPc, alive, accepting, files, conn, config, shut, mu, pools>>

InitForm ==
    InitPure("form", {[op |-> "input", items |-> items]
                         : items \in {<<>>} \cup SeqsUpTo(FormItems, MaxPairs)})

NextForm == ParseForm

SpecForm == InitForm /\ [][NextForm]_vars

(***************************************************************************)
(* The read deadlines of one connection: the loop of RunConnection with     *)
(* the time that passes while readHTTPRequest and readRemainingBody wait.   *)
(* The state is held in probe:                                             *)
(*   pc       "header" (at the top of the loop of readHTTPRequest), "hread" *)
(*            (in its conn.Read), "body" (in readRemainingBody before its   *)
(*            loop), "bread" (in the conn.Read of that loop), "closed"      *)
(*            (RunConnection has returned)                                  *)
(*   left     the seconds until the read deadline of the connection, -1     *)
(*            when it has none                                              *)
(*   waited   the seconds the conn.Read in progress has been waiting        *)
(*   partial  bytes of a header block without its blank line are in         *)
(*            headerBuffer                                                  *)
(*   need     the bytes of the declared body still to read                  *)
(*   client   "active", "quiet" (it sends nothing more and keeps the        *)
(*            connection open), "gone" (it has closed the connection)       *)
(*   served   the requests processed                                        *)
(*   written  the conn.Write calls made                                     *)
(*   quietWritten  history: written when the client went quiet              *)
(*   last     history: "timeout" or "error", how the last failed read failed *)
(***************************************************************************)
MaxServed == 2          \* requests a client sends on the connection
MaxRemaining == 2       \* bytes of a body that come after the header block

\* A connection whose reads have no deadline.
NoReadDeadline(timeout) == -1

\* conn.SetReadDeadline(time.Now().Add(timeout)): the seconds left until the
\* deadline.
ReadDeadline(timeout) == timeout

TimingStart ==
    [op |-> "timing", pc |-> "header", left |-> -1, waited |-> 0, partial |-> FALSE,
     need |-> 0, client |-> "active", served |-> 0, written |-> 0, quietWritten |-> 0,
     last |-> ""]

InRead(p) == p.pc \in {"hread", "bread"}

\* processRequest has its body (whole, or what there was before a failed read);
\* the response is written and the loop of RunConnection reads again.
Responded(p) ==
    [p EXCEPT !.pc = "header", !.partial = FALSE, !.need = 0, !.waited = 0,
              !.served = @ + 1, !.written = @ + 1]

\* The top of the loop of readHTTPRequest: the deadline is set, then conn.Read
\* is called.
SetHeaderDeadline ==
    /\ scenario = "timing"
    /\ probe.pc = "header"
    /\ probe' = [probe EXCEPT !.pc = "hread", !.left = ReadDeadline(config.ReadTimeout),
                              !.waited = 0]
    /\ UNCHANGED <<scenario, routes, regOrder, mainPc, alive, accepting, files, conn, config, shut, mu, pools>>

\* conn.Read of readHTTPRequest returns bytes before the deadline: without the
\* blank line the loop turns; with it processRequest starts, and goes to
\* readRemainingBody when bytes of the declared body are missing.
HeaderData(final, need) ==
    /\ scenario = "timing"
    /\ probe.pc = "hread"
    /\ probe.client = "active"
    /\ probe.left # 0
    /\ probe.served < MaxServed
    /\ IF ~final
       THEN /\ ~probe.partial
            /\ need = 0
            /\ probe' = [probe EXCEPT !.pc = "header", !.partial = TRUE, !.waited = 0]
       ELSE IF need = 0
            THEN probe' = Responded(probe)
            ELSE probe' = [probe EXCEPT !.pc = "body", !.partial = FALSE, !.need = need,
                                        !.waited = 0]
    /\ UNCHANGED <<scenario, routes, regOrder, mainPc, alive, accepting, files, conn, config, shut, mu, pools>>

\* readRemainingBody before its loop: the one SetReadDeadline of the body.
SetBodyDeadline ==
    /\ scenario = "timing"
    /\ probe.pc = "body"
    /\ probe' = [probe EXCEPT !.pc = "bread", !.left = ReadDeadline(config.ReadTimeout),
                              !.waited = 0]
    /\ UNCHANGED <<scenario, routes, regOrder, mainPc, alive, accepting, files, conn, config, shut, mu, pools>>

\* conn.Read of the loop of readRemainingBody returns n bytes before the
\* deadline: with bytes still missing the loop calls conn.Read again, the
\* deadline as it is.
BodyData(n) ==
    /\ scenario = "timing"
    /\ probe.pc = "bread"
    /\ probe.client = "active"
    /\ probe.left # 0
    /\ n <= probe.need
    /\ IF n < probe.need
       THEN probe' = [probe EXCEPT !.need = @ - n, !.waited = 0]
       ELSE probe' = Responded(probe)
    /\ UNCHANGED <<scenario, routes, regOrder, mainPc, alive, accepting, files, conn, config, shut, mu, pools>>

\* A conn.Read fails.  In readHTTPRequest the error is returned and
\* RunConnection returns; in readRemainingBody the body is what came with the
\* header block and processRequest goes on.
ReadFailed(p, how) ==
    IF p.pc = "hread"
    THEN [p EXCEPT !.pc = "closed", !.last = how, !.waited = 0]
    ELSE [Responded(p) EXCEPT !.last = how]

\* The deadline passes while a conn.Read waits.
Timeout ==
    /\ scenario = "timing"
    /\ InRead(probe)
    /\ probe.left = 0
    /\ probe' = ReadFailed(probe, "timeout")
    /\ UNCHANGED <<scenario, routes, regOrder, mainPc, alive, accepting, files, conn, config, shut, mu, pools>>

\* A conn.Read returns io.EOF: the client has closed the connection.
ReadError ==
    /\ scenario = "timing"
    /\ InRead(probe)
    /\ probe.client = "gone"
    /\ probe.left # 0
    /\ probe' = ReadFailed(probe, "error")
    /\ UNCHANGED <<scenario, routes, regOrder, mainPc, alive, accepting, files, conn, config, shut, mu, pools>>

\* A second passes.  A conn.Read whose deadline has come returns first.
Second ==
    /\ scenario = "timing"
    /\ probe.pc # "closed"
    /\ probe.left > 0
    /\ probe' = [probe EXCEPT !.left = @ - 1,
                              !.waited = IF InRead(probe) THEN @ + 1 ELSE @]
    /\ UNCHANGED <<scenario, routes, regOrder, mainPc, alive, accepting, files, conn, config, shut, mu, pools>>

\* The client, between two requests, stops sending and keeps the connection
\* open.
ClientQuiet ==
    /\ scenario = "timing"
    /\ probe.client = "active"
    /\ probe.pc \in {"header", "hread"}
    /\ ~probe.partial
    /\ probe' = [probe EXCEPT !.client = "quiet", !.quietWritten = probe.written]
    /\ UNCHANGED <<scenario, routes, regOrder, mainPc, alive, accepting, files, conn, config, shut, mu, pools>>

\* The client closes the connection.
ClientCloses ==
    /\ scenario = "timing"
    /\ probe.client = "active"
    /\ probe.pc # "closed"
    /\ probe' = [probe EXCEPT !.client = "gone"]
    /\ UNCHANGED <<scenario, routes, regOrder, mainPc, alive, accepting, files, conn, config, shut, mu, pools>>

InitTiming == InitPure("timing", {TimingStart})

NextTiming ==
    \/ SetHeaderDeadline
    \/ \E final \in BOOLEAN, need \in 0..MaxRemaining : HeaderData(final, need)
    \/ SetBodyDeadline
    \/ \E n \in 1..MaxRemaining : BodyData(n)
    \/ Timeout
    \/ ReadError
    \/ Second
    \/ ClientQuiet
    \/ ClientCloses

\* One connection, its client and the clock.
SpecTiming == InitTiming /\ [][NextTiming]_vars

\* The same with time that passes and a server that runs: the goroutine of the
\* connection is scheduled, and the runtime wakes a conn.Read at its deadline.
SpecIdle ==
    /\ SpecTiming
    /\ WF_vars(Second)
    /\ WF_vars(SetHeaderDeadline)
    /\ WF_vars(SetBodyDeadline)
    /\ WF_vars(Timeout)
    /\ WF_vars(ReadError)

(***************************************************************************)
(* The buffers of the three pools and who holds them: readHTTPRequest and   *)
(* CreateResponseBytes called from goroutines of their own.  The state is   *)
(* held in probe:                                                          *)
(*   request, chunk, response  the buffers in requestBufferPool,            *)
(*            chunkBufferPool and responseBufferPool                        *)
(*   hmem, cmem, rmem  the bytes in the array of each buffer                *)
(*   user     per goroutine: pc "idle", "loop" (at the top of the loop of   *)
(*            readHTTPRequest), "read" (in conn.Read), "append" (the chunk  *)
(*            is filled), "have" (readHTTPRequest has returned), "build"    *)
(*            (in CreateResponseBytes), "done" (it has returned), "failed"  *)
(*            (readHTTPRequest returned an error); buf, chunkBuf, respBuf   *)
(*            the buffers it holds (0: none); turns, the reads that         *)
(*            returned data; requestData and responseBytes, the slices      *)
(*            returned to it; chunkGets and chunkPuts, the Get and Put      *)
(*            calls on chunkBufferPool of the call in progress              *)
(***************************************************************************)
MaxTurns == 2           \* reads of a header block

\* A returned slice that is the pooled array itself.
SliceOf(mem, id) == [alias |-> id, data |-> <<>>]

\* result := make([]byte, len); copy(result, buffer): a slice with an array of
\* its own.
CopyOf(mem, id) == [alias |-> 0, data |-> mem[id]]

NoSlice == [alias |-> 0, data |-> <<>>]

\* The bytes a slice holds now.
Deref(mem, slice) == IF slice.alias # 0 THEN mem[slice.alias] ELSE slice.data

NoUser ==
    [pc |-> "idle", buf |-> 0, chunkBuf |-> 0, respBuf |-> 0, turns |-> 0,
     requestData |-> NoSlice, responseBytes |-> NoSlice, chunkGets |-> 0, chunkPuts |-> 0]

OwnerStart ==
    [op |-> "owner", request |-> {}, chunk |-> {}, response |-> {},
     hmem |-> [i \in PoolUsers |-> <<>>], cmem |-> [i \in PoolUsers |-> <<>>],
     rmem |-> [i \in PoolUsers |-> <<>>], user |-> [g \in PoolUsers |-> NoUser]]

\* sync.Pool.Get: a buffer of the pool, or a new one from New; never a buffer
\* some goroutine took and has not put back.
Gettable(pool, held) == pool \cup {i \in PoolUsers : i \notin held}

RequestHeld == {probe.user[g].buf : g \in PoolUsers}

ChunkHeld == {probe.user[g].chunkBuf : g \in PoolUsers}

ResponseHeld == {probe.user[g].respBuf : g \in PoolUsers}

\* The bytes a read of g's connection returns, and the response g builds.
PieceOf(g) == <<"piece", g>>

ResponseOf(g) == <<"response", g>>

\* readHTTPRequest: requestBufferPool.Get and headerBuffer := (*bufPtr)[:0].
GetRequestBuffer(g) ==
    /\ scenario = "owner"
    /\ probe.user[g].pc = "idle"
    /\ \E id \in Gettable(probe.request, RequestHeld) :
          probe' = [probe EXCEPT !.request = @ \ {id}, !.hmem[id] = <<>>,
                                 !.user[g] = [NoUser EXCEPT !.pc = "loop", !.buf = id]]
    /\ UNCHANGED <<scenario, routes, regOrder, mainPc, alive, accepting, files, conn, config, shut, mu, pools>>

\* The loop of readHTTPRequest up to conn.Read: chunkBufferPool.Get.
GetChunk(g) ==
    /\ scenario = "owner"
    /\ probe.user[g].pc = "loop"
    /\ \E id \in Gettable(probe.chunk, ChunkHeld) :
          probe' = [probe EXCEPT !.chunk = @ \ {id},
                                 !.user[g].pc = "read", !.user[g].chunkBuf = id,
                                 !.user[g].chunkGets = @ + 1]
    /\ UNCHANGED <<scenario, routes, regOrder, mainPc, alive, accepting, files, conn, config, shut, mu, pools>>

\* conn.Read returns: with an error the chunk is put back, readHTTPRequest
\* returns and its deferred function puts the request buffer back; with data
\* the chunk holds the bytes read.
ReadChunk(g, ok) ==
    LET u == probe.user[g]
    IN  /\ scenario = "owner"
        /\ u.pc = "read"
        /\ IF ok
           THEN probe' = [probe EXCEPT !.cmem[u.chunkBuf] = <<PieceOf(g)>>,
                                       !.user[g].pc = "append"]
           ELSE probe' = [probe EXCEPT !.chunk = @ \cup {u.chunkBuf},
                                       !.request = @ \cup {u.buf},
                                       !.user[g].pc = "failed", !.user[g].chunkBuf = 0,
                                       !.user[g].buf = 0,
                                       !.user[g].chunkPuts = @ + 1]
    /\ UNCHANGED <<scenario, routes, regOrder, mainPc, alive, accepting, files, conn, config, shut, mu, pools>>

\* headerBuffer = append(headerBuffer, chunk[:n]...), chunkBufferPool.Put, and
\* the search for the end marker: the loop turns, or the result is made, copied
\* and returned and the deferred function puts the request buffer back.
AppendChunk(g, found) ==
    LET u     == probe.user[g]
        hmem2 == [probe.hmem EXCEPT ![u.buf] = @ \o probe.cmem[u.chunkBuf]]
    IN  /\ scenario = "owner"
        /\ u.pc = "append"
        /\ found \/ u.turns + 1 < MaxTurns
        /\ IF found
           THEN probe' = [probe EXCEPT !.hmem = hmem2,
                                       !.chunk = @ \cup {u.chunkBuf},
                                       !.request = @ \cup {u.buf},
                                       !.user[g].pc = "have", !.user[g].chunkBuf = 0,
                                       !.user[g].buf = 0,
                                       !.user[g].turns = @ + 1,
                                       !.user[g].chunkPuts = @ + 1,
                                       !.user[g].requestData = CopyOf(hmem2, u.buf)]
           ELSE probe' = [probe EXCEPT !.hmem = hmem2,
                                       !.chunk = @ \cup {u.chunkBuf},
                                       !.user[g].pc = "loop", !.user[g].chunkBuf = 0,
                                       !.user[g].turns = @ + 1,
                                       !.user[g].chunkPuts = @ + 1]
    /\ UNCHANGED <<scenario, routes, regOrder, mainPc, alive, accepting, files, conn, config, shut, mu, pools>>

\* CreateResponseBytes: responseBufferPool.Get and buf.Reset.
GetResponseBuffer(g) ==
    /\ scenario = "owner"
    /\ probe.user[g].pc = "have"
    /\ \E id \in Gettable(probe.response, ResponseHeld) :
          probe' = [probe EXCEPT !.response = @ \ {id}, !.rmem[id] = <<>>,
                                 !.user[g].pc = "build", !.user[g].respBuf = id]
    /\ UNCHANGED <<scenario, routes, regOrder, mainPc, alive, accepting, files, conn, config, shut, mu, pools>>

\* The writes into the buffer, the copy that is returned, and the deferred Put.
ReturnResponse(g) ==
    LET u     == probe.user[g]
        rmem2 == [probe.rmem EXCEPT ![u.respBuf] = @ \o <<ResponseOf(g)>>]
    IN  /\ scenario = "owner"
        /\ u.pc = "build"
        /\ probe' = [probe EXCEPT !.rmem = rmem2,
                                  !.response = @ \cup {u.respBuf},
                                  !.user[g].pc = "done", !.user[g].respBuf = 0,
                                  !.user[g].responseBytes = CopyOf(rmem2, u.respBuf)]
    /\ UNCHANGED <<scenario, routes, regOrder, mainPc, alive, accepting, files, conn, config, shut, mu, pools>>

\* conn.Write(responseBytes), and RunConnection reads the next request; or
\* RunConnection has returned after a failed read and another connection is
\* served.
NextRequest(g) ==
    /\ scenario = "owner"
    /\ probe.user[g].pc \in {"done", "failed"}
    /\ probe' = [probe EXCEPT !.user[g] = NoUser]
    /\ UNCHANGED <<scenario, routes, regOrder, mainPc, alive, accepting, files, conn, config, shut, mu, pools>>

InitOwner == InitPure("owner", {OwnerStart})

NextOwner ==
    \/ \E g \in PoolUsers : GetRequestBuffer(g)
    \/ \E g \in PoolUsers : GetChunk(g)
    \/ \E g \in PoolUsers, ok \in BOOLEAN : ReadChunk(g, ok)
    \/ \E g \in PoolUsers, found \in BOOLEAN : AppendChunk(g, found)
    \/ \E g \in PoolUsers : GetResponseBuffer(g)
    \/ \E g \in PoolUsers : ReturnResponse(g)
    \/ \E g \in PoolUsers : NextRequest(g)

\* Two connections served at the same time, with the arrays of their buffers.
SpecOwner == InitOwner /\ [][NextOwner]_vars

(***************************************************************************)
(* What a client reads in the bytes of a response.                         *)
(***************************************************************************)
ResponseStatus(bytes) == Split(Split(bytes, <<CRLF>>)[1], <<SP>>)[2]

ResponseHeaders(bytes) ==
    parseHeadersFromBytes(Tail(Split(SplitN(bytes, EndMarker, 2)[1], <<CRLF>>)))

ResponseBody(bytes) == SplitN(bytes, EndMarker, 2)[2]

\* The last conn.Write of the request in progress.
LastWritten(k) == k.written[Len(k.written)].bytes

\* The request line of a catalogue request as the client wrote it.
MethodOf(q) == Split(Catalogue[q].wire[1], <<SP>>)[1]

TargetOf(q) == Split(Catalogue[q].wire[1], <<SP>>)[2]

PathOf(q) == SplitN(TargetOf(q), <<"?">>, 2)[1]

\* The first line of a catalogue request has fewer than 3 tokens between
\* single spaces.
Malformed(q) == Len(Split(Split(Catalogue[q].wire[1], <<CRLF>>)[1], <<SP>>)) < 3

\* Connection c has just written the response to catalogue request q, which it
\* had read from its first byte.
Answered(c, q) == conn[c].wrote /\ conn[c].sent = q

(***************************************************************************)
(* Properties of the Connection Loop.                                      *)
(***************************************************************************)
\* C1: once the response to a well-formed request with Connection: close is
\* written the session has ended with exactly one response for it; after the
\* response to a well-formed request with no Connection header or with
\* Connection: keep-alive the session is back at reading.
C1_KeepAliveDecision ==
    \A c \in Conns : \A q \in DOMAIN Catalogue :
        (Answered(c, q) /\ ~Malformed(q))
            => IF Catalogue[q].connection = <<"close">>
               THEN conn[c].pc = "closed" /\ Len(conn[c].written) = 1
               ELSE conn[c].pc = "read"

\* A request without Connection: close whose handler panicked has been answered.
C1_PanicAnswered ==
    \E c \in Conns :
        /\ Answered(c, "panic")
        /\ Catalogue["panic"].connection # <<"close">>
        /\ ResponseStatus(LastWritten(conn[c])) = <<"500">>

\* C2: when the dispatched handler panics a 500 response is written and the
\* session is back at reading, unless the request said Connection: close.
C2_PanicRecoverable ==
    \A c \in Conns : \A q \in DOMAIN Catalogue :
        (/\ Answered(c, q)
         /\ conn[c].calls # <<>>
         /\ RunHandler(conn[c].calls[1].handler, conn[c].calls[1].req).panics)
            => /\ ResponseStatus(LastWritten(conn[c])) = <<"500">>
               /\ Catalogue[q].connection # <<"close">> => conn[c].pc = "read"

\* The handler of a request panicked, the 500 response was written and the
\* session is over.
C2_PanicClosed ==
    \E c \in Conns :
        /\ Answered(c, "panic")
        /\ conn[c].calls # <<>>
        /\ ResponseStatus(LastWritten(conn[c])) = <<"500">>
        /\ conn[c].pc = "closed"

\* The status each request of the "server" clients is answered with; a create
\* request whose body could not be read is answered as one without a name.
ServerStatus(c, q) ==
    IF q = "ping" THEN <<"200">>
    ELSE IF q = "panic" THEN <<"500">>
    ELSE IF q = "bad" THEN <<"400">>
    ELSE IF q = "create" THEN IF conn[c].inbox = <<>> THEN <<"201">> ELSE <<"400">>
    ELSE <<>>

\* C3: whatever happens on the connections (handler panics, read errors,
\* malformed requests, failed writes) the process lives, the accept loop, once
\* started, can accept every connection not accepted yet, each request is
\* answered with the status it is answered with on a server that serves nothing
\* else, and two connections that received the same request got the same bytes.
C3_FaultIsolation ==
    /\ alive
    /\ mainPc > Len(MainRoutes) + 1
          => /\ accepting
             /\ \A d \in Conns : conn[d].pc = "idle" => ENABLED Accept(d)
    /\ \A c \in Conns : \A q \in MenuOf("server") :
          Answered(c, q) => ResponseStatus(LastWritten(conn[c])) = ServerStatus(c, q)
    /\ \A c, d \in Conns : \A q \in MenuOf("server") :
          (Answered(c, q) /\ Answered(d, q) /\ conn[c].inbox = conn[d].inbox)
              => LastWritten(conn[c]) = LastWritten(conn[d])

\* A handler panicked on one connection, its session is over, and afterwards
\* another connection was accepted and its request answered by its handler.
C3_PanicThenServed ==
    \E c, d \in Conns :
        /\ c # d
        /\ Answered(c, "panic") /\ conn[c].pc = "closed"
        /\ Answered(d, "ping")
        /\ ResponseStatus(LastWritten(conn[d])) = <<"200">>
        /\ ResponseBody(LastWritten(conn[d])) = <<"pong">>

\* Request q of the catalogue has been received completely by connection c and
\* answered.
Received(c, q) == Answered(c, q) /\ conn[c].inbox = <<>>

\* The one handler call of the request in progress is the call the client's
\* request stands for.
CalledAsExpected(c, q) ==
    /\ Len(conn[c].calls) = 1
    /\ conn[c].calls[1].handler = Catalogue[q].expect.handler
    /\ conn[c].calls[1].req.Method = Catalogue[q].expect.Method
    /\ conn[c].calls[1].req.Path = Catalogue[q].expect.Path
    /\ conn[c].calls[1].req.PathParams = Catalogue[q].expect.PathParams
    /\ conn[c].calls[1].req.Query = Catalogue[q].expect.Query
    /\ conn[c].calls[1].req.Body = Catalogue[q].expect.Body

NotFoundBody ==
    IF readFileContent(files, <<"pages", "/", "404", DOT, "html">>).ok
    THEN readFileContent(files, <<"pages", "/", "404", DOT, "html">>).content
    ELSE <<"Route", SP, "Not", SP, "Found">>

C10_MalformedRequestLine ==
    \A c \in Conns : \A q \in DOMAIN Catalogue :
        (Answered(c, q) /\ Malformed(q))
            => /\ ResponseStatus(LastWritten(conn[c])) = <<"400">>
               /\ Len(conn[c].written) = 1
               /\ conn[c].calls = <<>>
               /\ conn[c].pc = "closed"

\* The request line GET /ping sent with Connection: keep-alive has been
\* answered.
C10_BadAnswered ==
    /\ Answered(1, "bad")
    /\ Malformed("bad")
    /\ Catalogue["bad"].connection = <<"keep-alive">>
    /\ ResponseBody(LastWritten(conn[1])) = <<"Invalid", SP, "request", SP, "line">>

(***************************************************************************)
(* Properties of the Route Table and of matchRoute.                        *)
(***************************************************************************)
\* The Register calls made for a method and a path, and for a method and a
\* pattern the path matches.
RegisteredAt(method, path) ==
    {i \in 1..Len(regOrder) : regOrder[i][1] = method /\ regOrder[i][2] = path}

MatchingAt(method, path) ==
    {i \in 1..Len(regOrder) :
        regOrder[i][1] = method /\ matchRoute(path, regOrder[i][2]).matched}

First(S) == CHOOSE i \in S : \A j \in S : i <= j

Latest(S) == CHOOSE i \in S : \A j \in S : j <= i

\* C5: a lookup of a path that is no registered key and that patterns of the
\* method match uses the pattern registered first among them: its handler and
\* its parameter names.
C5_RegistrationOrder ==
    (/\ probe.op = "resolve"
     /\ RegisteredAt(probe.method, probe.path) = {}
     /\ MatchingAt(probe.method, probe.path) # {})
        => LET first == regOrder[First(MatchingAt(probe.method, probe.path))][2]
           IN  /\ probe.result.found
               /\ probe.result.pattern = first
               /\ probe.result.handler = routes[probe.method][first]
               /\ probe.result.params = matchRoute(probe.path, first).params

\* /users/:id was registered before /users/:name and a lookup of /users/42 was
\* answered with the handler and the parameter name of /users/:name.
C5_LaterPatternUsed ==
    /\ probe.op = "resolve"
    /\ probe.path = <<"/", "users", "/", "42">>
    /\ Len(regOrder) = 2
    /\ regOrder[1] = <<probe.method, <<"/", "users", "/", ":", "id">>, "h1">>
    /\ regOrder[2] = <<probe.method, <<"/", "users", "/", ":", "name">>, "h2">>
    /\ probe.result.handler = "h2"
    /\ probe.result.params = (<<"name">> :> <<"42">>)

\* C6: a lookup of a method and a path registered as a key returns the handler
\* registered for them (the latest, when registered again) with an empty
\* parameter map, whatever else is registered.
C6_ExactPath ==
    (probe.op = "resolve" /\ RegisteredAt(probe.method, probe.path) # {})
        => /\ probe.result.found
           /\ probe.result.handler = regOrder[Latest(RegisteredAt(probe.method, probe.path))][3]
           /\ probe.result.params = EmptyMap

\* /users/me was looked up with /users/me registered after a pattern of the
\* same method that matches it, and with a third route registered.
C6_ExactAmongPatterns ==
    /\ probe.op = "resolve"
    /\ probe.path = <<"/", "users", "/", "me">>
    /\ Len(regOrder) = 3
    /\ RegisteredAt(probe.method, probe.path) = {2}
    /\ 1 \in MatchingAt(probe.method, probe.path)
    /\ probe.result.handler = "h2"

\* The captures of a pattern given as segments, for a path given as segments.
Captures(pathSegs, patternSegs) ==
    [name \in {Tail(patternSegs[i]) : i \in {j \in 1..Len(patternSegs) :
                                               Head(patternSegs[j]) = ":"}}
        |-> pathSegs[CHOOSE i \in 1..Len(patternSegs) : patternSegs[i] = <<":">> \o name]]

\* C7: a path matches a pattern iff both have the same number of segments and
\* every pattern segment that is no capture equals the path segment at its
\* position; on a match each capture :name maps name to the path segment at
\* its position.
C7_StructuralMatch ==
    probe.op = "match"
        => LET same == /\ Len(probe.path) = Len(probe.pattern)
                       /\ \A i \in 1..Len(probe.pattern) :
                             Head(probe.pattern[i]) # ":"
                                 => probe.pattern[i] = probe.path[i]
           IN  /\ probe.result.matched = same
               /\ same => probe.result.params = Captures(probe.path, probe.pattern)

\* /a/1/b/2 was matched against /a/:x/b/:y and gave {x: 1, y: 2}.
C7_TwoCaptures ==
    /\ probe.op = "match"
    /\ SlashJoin(probe.path) = <<"/", "a", "/", "1", "/", "b", "/", "2">>
    /\ SlashJoin(probe.pattern) = <<"/", "a", "/", ":", "x", "/", "b", "/", ":", "y">>
    /\ probe.result.matched
    /\ probe.result.params = (<<"x">> :> <<"1">>) @@ (<<"y">> :> <<"2">>)

(***************************************************************************)
(* Properties of the Response Builder.                                     *)
(***************************************************************************)
\* C4: every response the engine or a Serve* helper builds has a
\* Content-Length header whose value is the number of bytes after the blank
\* line.
C4_ContentLength ==
    probe.op = "respond"
        => LET h == ResponseHeaders(probe.bytes)
           IN  /\ <<"Content-Length">> \in DOMAIN h
               /\ Atoi(h[<<"Content-Length">>]).ok
               /\ Atoi(h[<<"Content-Length">>]).val = ByteLen(ResponseBody(probe.bytes))

\* A static file of 5 bytes in two lines has been served.
C4_StaticFileServed ==
    /\ probe.op = "respond"
    /\ probe.status = <<"200">>
    /\ ResponseBody(probe.bytes) = <<"a", CRLF, "bc">>
    /\ ResponseHeaders(probe.bytes)[<<"Content-Length">>] = <<"5">>
    /\ ResponseHeaders(probe.bytes)[<<"Content-Type">>] # TextPlain

(***************************************************************************)
(* Properties of the Frame Reader and of the reads of the Connection Loop. *)
(***************************************************************************)
\* C11: the accumulated length is checked before every read of the Frame
\* Reader: a connection that is reading headers with more than MaxHeaderSize
\* bytes accumulated and no terminator found does nothing but fail with
\* "headers too large": it reads nothing more and its session is over.
C11_HeaderLimit ==
    [][\A c \in Conns :
          (/\ conn[c].pc = "read"
           /\ ByteLen(conn[c].hbuf) > MaxHeaderSize
           /\ conn'[c] # conn[c])
              => /\ conn'[c].last = "too large"
                 /\ conn'[c].pc = "closed"
                 /\ conn'[c].inbox = conn[c].inbox
                 /\ conn'[c].written = conn[c].written]_vars

\* A client sent four chunks of ChunkSize bytes without a terminator; the
\* Frame Reader gave up after three reads and left the fourth unread.
C11_FloodRefused ==
    /\ conn[1].last = "too large"
    /\ conn[1].pc = "closed"
    /\ conn[1].inbox = <<<<Fill>>>>
    /\ conn[1].written = <<>>

\* C12: a session that ended because the Frame Reader failed with "headers
\* too large" ended with the write of a 400-class response; a session that
\* ended because the Frame Reader failed in any other way ended without a
\* write.
C12_TooLargeAnswered ==
    \A c \in Conns :
        /\ (conn[c].pc = "closed" /\ conn[c].last = "too large")
              => /\ conn[c].wrote
                 /\ ResponseStatus(LastWritten(conn[c])) \in {<<"400">>, <<"413">>, <<"431">>}
        /\ (conn[c].pc = "closed" /\ conn[c].last = "error") => ~conn[c].wrote

\* The Frame Reader failed with "headers too large" on the first request of a
\* connection and the session ended with nothing written on the connection.
C12_TooLargeSilent ==
    \E c \in Conns :
        /\ conn[c].pc = "closed"
        /\ conn[c].last = "too large"
        /\ ~conn[c].wrote
        /\ conn[c].written = <<>>
        /\ conn[c].calls = <<>>

\* C13: when a read for the rest of a declared body fails (deadline passed,
\* peer gone) the connection is aborted: no handler is invoked for the request
\* and no response is written for it.
C13_PartialBodyAborts ==
    \A c \in Conns :
        conn[c].last = "body error"
            => /\ conn[c].pc = "closed"
               /\ conn[c].calls = <<>>
               /\ conn[c].written = <<>>

\* The body of POST /api/create (Content-Length: 6) never arrived; the handler
\* was invoked with an empty Body and its 400 response was written.
C13_PartialBodyServed ==
    \E c \in Conns :
        /\ conn[c].sent = "create"
        /\ conn[c].last = "body error"
        /\ conn[c].inbox # <<>>
        /\ Len(conn[c].calls) = 1
        /\ conn[c].calls[1].handler = "create"
        /\ conn[c].calls[1].req.Body = EmptyMap
        /\ conn[c].wrote
        /\ ResponseStatus(LastWritten(conn[c])) = <<"400">>
        /\ conn[c].pc = "read"

\* C14: once a conn.Write of a response has failed the session is over: the
\* Connection Loop is not back at reading a request.
C14_WriteErrorFatal ==
    \A c \in Conns :
        (conn[c].wrote /\ ~conn[c].written[Len(conn[c].written)].ok)
            => conn[c].pc = "closed"

\* The write of the response to GET /ping failed and the Connection Loop is in
\* readHTTPRequest again.
C14_ReadingAfterFailedWrite ==
    \E c \in Conns :
        /\ Answered(c, "ping")
        /\ ~conn[c].written[1].ok
        /\ ResponseStatus(conn[c].written[1].bytes) = <<"200">>
        /\ conn[c].pc = "read"

\* C15: a conn.Read of the Frame Reader that returns no bytes and no error ends
\* readHTTPRequest, and with it the session, as a closed connection does.
C15_ZeroReadCloses ==
    \A c \in Conns : conn[c].last = "zero" => conn[c].pc = "closed"

\* A conn.Read of the Frame Reader returned no bytes and no error, and the
\* connection is in the loop of readHTTPRequest, about to read again.
C15_ZeroReadLoops ==
    \E c \in Conns :
        /\ conn[c].last = "zero"
        /\ conn[c].pc = "read"
        /\ ~HeadersTooLarge(conn[c].hbuf)

(***************************************************************************)
(* Properties of the body and header handling of processRequest.           *)
(***************************************************************************)
\* The requests sent as application/json whose body is no JSON object.
JsonUnparsable == {"jsonBad", "jsonCut"}

\* C16: a request sent as application/json whose body is not a JSON object
\* invokes the matched handler once with an empty Body, the response of the
\* handler is the one response written, and the session closes exactly when the
\* request said Connection: close.
C16_BodyParseFailure ==
    \A c \in Conns : \A q \in JsonUnparsable :
        Answered(c, q)
            => /\ CalledAsExpected(c, q)
               /\ conn[c].calls[1].req.Body = EmptyMap
               /\ Len(conn[c].written) = 1
               /\ LastWritten(conn[c])
                     = RunHandler(conn[c].calls[1].handler, conn[c].calls[1].req).bytes
               /\ conn[c].pc = IF Catalogue[q].connection = <<"close">>
                               THEN "closed" ELSE "read"

\* POST /api/create sent as application/json with the body name=J reached the
\* handler with an empty Body; its answer (400, name field required) was
\* written and the session is back at reading.
C16_FormSentAsJson ==
    /\ Answered(1, "jsonBad")
    /\ conn[1].calls[1].handler = "create"
    /\ conn[1].calls[1].req.Body = EmptyMap
    /\ ResponseStatus(LastWritten(conn[1])) = <<"400">>
    /\ ResponseBody(LastWritten(conn[1])) = <<"name", SP, "field", SP, "required">>
    /\ conn[1].pc = "read"

\* The pieces of the input that are pairs with the key text k.
PairsOf(items, k) == {i \in 1..Len(items) : items[i].eq /\ items[i].key.text = k}

\* C17: the parsed map has exactly the decoded keys of the pieces that hold a
\* '=', each piece split at its first '=' (a=b=c maps a to b=c); a token that
\* cannot be decoded is kept as written; the value of a key is that of its last
\* occurrence; a=1&b=2 gives {a: 1, b: 2} and the empty input the empty map.
C17_FormParsing ==
    probe.op = "form"
        => /\ DOMAIN probe.result
                 = {probe.items[i].key.text
                       : i \in {j \in 1..Len(probe.items) : probe.items[j].eq}}
           /\ \A k \in DOMAIN probe.result :
                 \E i \in PairsOf(probe.items, k) :
                    /\ \A j \in PairsOf(probe.items, k) : j <= i
                    /\ probe.result[k] = probe.items[i].value.text
           /\ probe.data = <<>> => probe.result = EmptyMap
           /\ probe.data = <<"a", "=", "1", "&", "b", "=", "2">>
                 => probe.result = (<<"a">> :> <<"1">>) @@ (<<"b">> :> <<"2">>)

\* a=1&a=b=c was parsed: the one key a maps to b=c.
C17_LastDuplicateWins ==
    /\ probe.op = "form"
    /\ probe.data = <<"a", "=", "1", "&", "a", "=", "b", "=", "c">>
    /\ probe.result = (<<"a">> :> <<"b", "=", "c">>)

\* The header of the request, as parseHeadersFromBytes reads the bytes the
\* client sent.
HeadersOf(q) == ParseHead(Catalogue[q].wire[1]).headerMap

\* Spellings of the header name Connection that differ in case only.
ConnectionSpellings == {<<"Connection">>, <<"connection">>, <<"CONNECTION">>}

\* The request asks to close the connection, under any spelling of the name.
SaysClose(q) == \E name \in ConnectionSpellings : Get(HeadersOf(q), name) = <<"close">>

\* C18: header names are looked up without regard to case: once the response
\* to a well-formed request that carries close under connection, Connection or
\* CONNECTION is written, the session has ended.
C18_HeaderCaseInsensitive ==
    \A c \in Conns : \A q \in DOMAIN Catalogue :
        (Answered(c, q) /\ ~Malformed(q) /\ SaysClose(q)) => conn[c].pc = "closed"

\* GET /ping carrying connection: close has been answered with 200 and the
\* session is back at reading.
C18_LowerCaseCloseIgnored ==
    /\ Answered(1, "closeLower")
    /\ Get(HeadersOf("closeLower"), <<"connection">>) = <<"close">>
    /\ ResponseStatus(LastWritten(conn[1])) = <<"200">>
    /\ conn[1].pc = "read"

\* C19: the Request a handler is invoked with carries the headers of the
\* request: every header name the client sent maps to its trimmed value.
C19_RequestHeaders ==
    \A c \in Conns : \A q \in DOMAIN Catalogue :
        (Answered(c, q) /\ ~Malformed(q))
            => \A i \in 1..Len(conn[c].calls) :
                  \A name \in DOMAIN HeadersOf(q) :
                     Get(conn[c].calls[i].req.Headers, name) = HeadersOf(q)[name]

\* The handler of GET /ping was invoked for a request that carried Host: x with
\* a Request whose Headers are empty.
C19_HeadersEmpty ==
    /\ Answered(1, "ping")
    /\ HeadersOf("ping") = (<<"Host">> :> <<"x">>)
    /\ Len(conn[1].calls) = 1
    /\ conn[1].calls[1].req.Headers = EmptyMap

\* The file the path of the request names lies in pages: the names of its
\* cleaned absolute path begin with the names of the pages directory.
InsidePages(cleanPath) ==
    LET names == CleanNames(Names(StaticFilePath(cleanPath)), Cwd)
    IN  Len(names) >= Len(Pages) /\ SubSeq(names, 1, Len(Pages)) = Pages

\* C20: a request whose path resolves outside pages, through .. or into a
\* sibling directory whose name begins with the letters of pages, is answered
\* 403 Access denied: no file is served and no handler is invoked.
C20_PathTraversal ==
    \A c \in Conns : \A q \in DOMAIN Catalogue :
        (Answered(c, q) /\ ~Malformed(q) /\ ~InsidePages(PathOf(q)))
            => /\ conn[c].calls = <<>>
               /\ Len(conn[c].written) = 1
               /\ ResponseStatus(LastWritten(conn[c])) = <<"403">>
               /\ ResponseBody(LastWritten(conn[c])) = <<"Access", SP, "denied">>

\* GET /../pages-old/secret.txt has been answered with 200 and the content of
\* the file secret.txt of the directory pages-old next to pages.
C20_SiblingServed ==
    /\ Answered(1, "sibling")
    /\ ~InsidePages(PathOf("sibling"))
    /\ ~IsPathTraversal(PathOf("sibling"))
    /\ conn[1].calls = <<>>
    /\ ResponseStatus(LastWritten(conn[1])) = <<"200">>
    /\ ResponseBody(LastWritten(conn[1])) = <<"old", SP, "secret">>

\* GET /../etc/passwd has been answered with 403 Access denied.
C20_EscapeRefused ==
    /\ Answered(1, "escape")
    /\ ~InsidePages(PathOf("escape"))
    /\ conn[1].calls = <<>>
    /\ ResponseStatus(LastWritten(conn[1])) = <<"403">>

(***************************************************************************)
(* Properties of the shutdown of main.go.                                  *)
(***************************************************************************)
\* C21: once the shutdown signal has been delivered no connection is accepted
\* and handed to RunConnection any more: a connection not accepted yet stays
\* so in every step.
C21_NoAcceptAfterSignal ==
    [][\A c \in Conns :
          (shut.ctxDone /\ conn[c].pc = "idle") => conn'[c].pc = "idle"]_vars

\* The signal has been delivered, main has not closed the listener yet, and a
\* connection accepted after the signal is in its Connection Loop.
C21_AcceptedAfterSignal ==
    \E c \in Conns :
        /\ c \in shut.late
        /\ shut.ctxDone
        /\ mainPc \in {AtWait, AtClose}
        /\ accepting
        /\ conn[c].pc = "read"

\* C22: after the signal the process exits only when the grace period has
\* passed; until then no step of main touches a session, and a session whose
\* handler is running goes on to write its one response.
C22_ShutdownGrace ==
    [][/\ (alive /\ ~alive') => shut'.now >= GracePeriod
       /\ (shut.ctxDone /\ mainPc' # mainPc) => conn' = conn
       /\ \A c \in Conns :
             (shut.ctxDone /\ conn[c].pc = "dispatch" /\ conn'[c] # conn[c])
                 => /\ conn'[c].wrote
                    /\ Len(conn'[c].written) = 1
                    /\ conn'[c].pc = "read"]_vars

\* Main sleeps, the grace period has not passed, and the request GET /ping
\* whose handler was running when the signal came has its 200 written.
C22_AnsweredWithinGrace ==
    \E c \in Conns :
        /\ c \in shut.inFlight
        /\ alive
        /\ mainPc = AtSleep
        /\ shut.now < shut.wake
        /\ Answered(c, "ping")
        /\ conn[c].written[1].ok
        /\ ResponseStatus(LastWritten(conn[c])) = <<"200">>

(***************************************************************************)
(* Properties of Router.mu.                                                *)
(***************************************************************************)
\* The goroutines that are between an RLock and its RUnlock.
Reading == {t \in Lookers : mu.look[t].pc \in {"r1", "r2", "handler"}}

\* C23: Register never changes the route maps while a lookup reads them
\* (nobody is between RLock and RUnlock while Register is between Lock and
\* Unlock), and what a lookup reads is a table as it was when no Register was
\* under way: never a method map without the handler being stored.
C23_RouteTableDiscipline ==
    /\ mu.reg.pc \in {"w1", "w2", "w3"} => Reading = {}
    /\ mu.readers = Cardinality(Reading)
    /\ \A t \in Lookers :
          /\ mu.look[t].saw \in mu.committed
          /\ \A m \in DOMAIN mu.look[t].saw : mu.look[t].saw[m] # EmptyMap

\* All the lookups hold the read lock at the same time, each with the handler
\* it found running.
C23_LookupsTogether ==
    /\ mu.readers = NLook
    /\ \A t \in Lookers : mu.look[t].pc = "handler" /\ mu.look[t].result.found

(***************************************************************************)
(* Properties of the buffer pools.                                         *)
(***************************************************************************)
\* C24: every buffer the request pool or the response pool holds has a
\* capacity of at most 16384 bytes, and a step that gives up a buffer grown
\* beyond that leaves both pools as they are.
C24_PoolCeiling ==
    [][/\ \A c \in BagToSet(pools'.request) \cup BagToSet(pools'.response) : c <= 16384
       /\ \A g \in Conns :
             (pools.hold[g].cap > 16384 /\ pools'.hold[g] = NoBuffer)
                 => /\ pools'.request = pools.request
                    /\ pools'.response = pools.response]_vars

\* A response buffer that grew beyond 16384 bytes has been dropped, and the
\* response pool holds a buffer another response was built in.
C24_LargeBufferDropped ==
    /\ \E c \in pools.dropped : c > 16384
    /\ pools.response # EmptyBag
    /\ \A g \in Conns : pools.hold[g] = NoBuffer

(***************************************************************************)
(* Properties of the limits and switches of Config and of the framing.     *)
(***************************************************************************)
\* C25: the engine never waits for or allocates a body that is larger than
\* MaxBodySize, and a request that declares one is answered with a 4xx
\* rejection without a handler being invoked.
C25_BodySizeLimit ==
    \A c \in Conns :
        /\ conn[c].pc = "body"
              => ByteLen(conn[c].cur.bodyData) + conn[c].cur.need <= MaxBodySize
        /\ Answered(c, "huge")
              => /\ conn[c].calls = <<>>
                 /\ ResponseStatus(LastWritten(conn[c])) \in {<<"400">>, <<"413">>}

\* The request that declares 10485761 bytes of body has been read up to its
\* first 6 body bytes and readRemainingBody waits for the other 10485755.
C25_HugeBodyAwaited ==
    /\ conn[1].sent = "huge"
    /\ conn[1].pc = "body"
    /\ conn[1].cur.bodyData = <<"name", "=", "J">>
    /\ conn[1].cur.need = 10485755
    /\ conn[1].written = <<>>

\* C26: with EnableKeepAlive false the session ends after its first response,
\* whatever the Connection header of the request.
C26_KeepAliveOff ==
    \A c \in Conns : \A q \in DOMAIN Catalogue :
        (~config.EnableKeepAlive /\ Answered(c, q)) => conn[c].pc = "closed"

\* With EnableKeepAlive false GET /ping has been answered with 200 and the
\* session is back at reading.
C26_StillReading ==
    /\ ~config.EnableKeepAlive
    /\ Answered(1, "ping")
    /\ ResponseStatus(LastWritten(conn[1])) = <<"200">>
    /\ conn[1].pc = "read"

\* C29: when the server has taken in every byte of the two requests the
\* client wrote back to back (GET /ping, then GET /users/42) it has written two
\* responses, the second one that of GET /users/42.
C29_NoRequestLost ==
    \A c \in Conns :
        (/\ Answered(c, "pipelined")
         /\ conn[c].inbox = <<>>
         /\ conn[c].hbuf = <<>>)
            => /\ Len(conn[c].written) = 2
               /\ ResponseBody(conn[c].written[2].bytes) = <<"User:", SP, "42">>

\* Every byte of GET /ping and GET /users/42 has been taken in, pong is the
\* one response written, the one handler call is that of /ping, and the
\* session is back at reading.
C29_SecondRequestSwallowed ==
    /\ Answered(1, "pipelined")
    /\ conn[1].inbox = <<>>
    /\ conn[1].hbuf = <<>>
    /\ Len(conn[1].written) = 1
    /\ ResponseBody(LastWritten(conn[1])) = <<"pong">>
    /\ Len(conn[1].calls) = 1
    /\ conn[1].calls[1].handler = "ping"
    /\ conn[1].pc = "read"

\* The bytes the client wrote after the header block of the request, all
\* chunks together, and the Content-Length it declared.
RECURSIVE Concat(_)
Concat(chunks) == IF chunks = <<>> THEN <<>> ELSE Head(chunks) \o Concat(Tail(chunks))

BytesAfterHead(q) == SplitN(Concat(Catalogue[q].wire), EndMarker, 2)[2]

DeclaredLength(q) == Atoi(Get(HeadersOf(q), <<"Content-Length">>)).val

\* C30: the body handed to the body parser is the first Content-Length bytes
\* after the header block: for the requests to /api/create that declare 6
\* bytes, whether the body arrives in a read of its own or is followed by more
\* bytes in the read of the header block, the handler gets the map of exactly
\* those 6 bytes.
C30_BodyIsContentLength ==
    \A c \in Conns : \A q \in {"create", "overlong"} :
        (Received(c, q) /\ conn[c].last = "")
            => /\ Len(conn[c].calls) = 1
               /\ conn[c].calls[1].req.Body
                     = parseKeyValuePairsFromBytes(
                          TakeBytes(BytesAfterHead(q), DeclaredLength(q)))

\* The request that declares 6 bytes of body and carries name=J&name=K has
\* been answered: the handler got name K and its 201 says so.
C30_BytesBeyondLengthParsed ==
    /\ Answered(1, "overlong")
    /\ DeclaredLength("overlong") = 6
    /\ TakeBytes(BytesAfterHead("overlong"), 6) = <<"name", "=", "J">>
    /\ conn[1].calls[1].req.Body = (<<"name">> :> <<"K">>)
    /\ ResponseStatus(LastWritten(conn[1])) = <<"201">>

(***************************************************************************)
(* Round trip of the Response Builder and the order of the Connection Loop. *)
(***************************************************************************)
\* C27: the bytes of CreateResponseBytes("200", "text/plain", "OK", b), split
\* at the first blank line, give back a Content-Length equal to len(b) and a
\* body equal to b, for the empty body and for bodies that hold CRLF CRLF too.
C27_RoundTrip ==
    probe.op = "build"
        => LET parts   == SplitN(probe.bytes, EndMarker, 2)
               lines   == Split(parts[1], <<CRLF>>)
               headers == parseHeadersFromBytes(Tail(lines))
           IN  /\ Len(parts) = 2
               /\ lines[1] = <<"HTTP/1.1", SP, "200", SP, "OK">>
               /\ Atoi(Get(headers, <<"Content-Length">>)).ok
               /\ Atoi(Get(headers, <<"Content-Length">>)).val = ByteLen(probe.body)
               /\ parts[2] = probe.body

\* The response around the body CRLF CRLF a has been built: Content-Length 5,
\* and what follows the first blank line is that body.
C27_BlankLineInBody ==
    /\ probe.op = "build"
    /\ probe.body = <<CRLF, CRLF, "a">>
    /\ SplitN(probe.bytes, EndMarker, 2)[2] = <<CRLF, CRLF, "a">>
    /\ ResponseHeaders(probe.bytes)[<<"Content-Length">>] = <<"5">>

\* A request is in flight on the connection: its bytes are being read, its
\* body awaited or its handler running.
InFlight(k) == k.pc \in {"body", "dispatch"} \/ (k.pc = "read" /\ k.hbuf # <<>>)

\* C28: a session handles one request at a time, in the order read, parse,
\* dispatch, write: while a request is in flight nothing has been written for
\* it, at most one handler has been invoked for it and only once its body is
\* there; the step that ends the handling of a request leaves exactly one
\* response written; and the session is back at reading a new request only with
\* that response written.
C28_Sequential ==
    [][\A c \in Conns :
          /\ Len(conn'[c].calls) <= 1
          /\ Len(conn'[c].written) <= 1
          /\ InFlight(conn'[c]) => conn'[c].written = <<>>
          /\ (conn'[c].calls # <<>> /\ InFlight(conn'[c])) => conn'[c].pc = "dispatch"
          /\ (/\ InFlight(conn[c]) \/ conn'[c].last = ""
              /\ conn[c].pc \in {"read", "body", "dispatch"}
              /\ conn'[c] # conn[c]
              /\ ~InFlight(conn'[c])
              /\ conn'[c].last \notin {"too large", "error", "zero"})
                 => /\ Len(conn'[c].written) = 1
                    /\ conn'[c].wrote
                    /\ conn'[c].hbuf = <<>>
          /\ (conn[c].calls # <<>> /\ ~InFlight(conn[c]) /\ conn[c].pc = "read")
                 => Len(conn[c].written) = 1]_vars

\* POST /api/create, its body read in a read of its own, has had its one
\* handler call and its one response, and the session is back at reading.
C28_OneCallOneResponse ==
    /\ Answered(1, "create")
    /\ conn[1].inbox = <<>>
    /\ Len(conn[1].calls) = 1
    /\ Len(conn[1].written) = 1
    /\ ~InFlight(conn[1])
    /\ conn[1].pc = "read"

(***************************************************************************)
(* Properties of the header limit, the read deadlines and the static files.*)
(***************************************************************************)
\* The header block of the bytes readHTTPRequest returned: the request line and
\* the headers through the first blank line.
HeaderBlock(requestData) == SplitN(requestData, EndMarker, 2)[1] \o EndMarker

\* C31: readHTTPRequest never returns a header block longer than MaxHeaderSize:
\* whenever processRequest is at work on a request (its body awaited or its
\* handler running), the header block it was given holds at most MaxHeaderSize
\* bytes, also when the blank line came with the read that took the
\* accumulated length over the limit.
C31_HeaderBlockWithinLimit ==
    \A c \in Conns :
        conn[c].pc \in {"body", "dispatch"}
            => ByteLen(HeaderBlock(conn[c].hbuf)) <= MaxHeaderSize

\* GET /ping with a header block of 8224 bytes, the last 2052 of them read in
\* the read that found the blank line, is with the handler of /ping.
C31_WideHeaderAccepted ==
    /\ conn[1].hbuf = Concat(Catalogue.wide.wire)
    /\ conn[1].pc = "dispatch"
    /\ conn[1].cur.handler = "ping"
    /\ conn[1].inbox = <<>>
    /\ ByteLen(HeaderBlock(conn[1].hbuf)) > MaxHeaderSize

\* C32: every conn.Read has a deadline that was computed immediately before
\* that read: a read that has waited w seconds has its deadline ReadTimeout - w
\* seconds ahead, in readHTTPRequest and in the loop of readRemainingBody
\* alike; and so no read waits longer than ReadTimeout.
C32_DeadlinePerAttempt ==
    InRead(probe) => /\ probe.left + probe.waited = ReadTimeout
                     /\ probe.waited <= ReadTimeout

\* No conn.Read waits longer than ReadTimeout, and a read of readHTTPRequest
\* has its deadline computed immediately before it.
C32_ReadsBounded ==
    /\ InRead(probe) => probe.waited <= ReadTimeout /\ probe.left >= 0
    /\ probe.pc = "hread" => probe.left + probe.waited = ReadTimeout

\* A body of which two bytes were missing: the first came after 20 seconds,
\* and the read for the second starts with the 10 seconds the first read left.
C32_SecondBodyReadOnOldDeadline ==
    /\ probe.pc = "bread"
    /\ probe.need = 1
    /\ probe.waited = 0
    /\ probe.left = 10

\* C33: static files come before routes.  Of a request that has been answered
\* and whose path passed the traversal validation: when pages holds a readable
\* file at its path (pages/index.html for /) the response is 200 with the
\* bytes of that file and no handler was invoked; when something exists there
\* that cannot be read the response is 404 and no handler was invoked.  A
\* handler is invoked for a request only when nothing exists under pages at
\* its path and the path passed the traversal validation.
C33_StaticFirst ==
    \A c \in Conns : \A q \in MenuOf("static") :
        LET filePath == StaticFilePath(PathOf(q))
            content  == readFileContent(files, filePath)
            there    == ~IsPathTraversal(PathOf(q)) /\ FileExists(files, filePath)
        IN  /\ (Answered(c, q) /\ there /\ content.ok)
                  => /\ ResponseStatus(LastWritten(conn[c])) = <<"200">>
                     /\ ResponseBody(LastWritten(conn[c])) = content.content
                     /\ conn[c].calls = <<>>
            /\ (Answered(c, q) /\ there /\ ~content.ok)
                  => /\ ResponseStatus(LastWritten(conn[c])) = <<"404">>
                     /\ conn[c].calls = <<>>
            /\ (conn[c].sent = q /\ conn[c].calls # <<>>)
                  => /\ ~FileExists(files, filePath)
                     /\ ~IsPathTraversal(PathOf(q))

\* GET /ping, for which main.go registers a handler, was answered with the file
\* pages/ping and the handler was not invoked; on another connection GET / was
\* answered with pages/index.html.
C33_FileShadowsRoute ==
    /\ Answered(1, "ping")
    /\ Resolve(routes, MethodOf("ping"), PathOf("ping")) # {NotFound}
    /\ ResponseStatus(LastWritten(conn[1])) = <<"200">>
    /\ ResponseBody(LastWritten(conn[1])) = <<"static", SP, "ping">>
    /\ conn[1].calls = <<>>
    /\ Answered(2, "root")
    /\ ResponseBody(LastWritten(conn[2])) = <<"<h1>", "home", "</h1>">>

\* GET /ping was answered 404 because pages/ping cannot be read, and POST
\* /api/create 404 because pages/api/create is a directory; neither handler
\* was invoked.
C33_UnreadableIs404 ==
    /\ files = FsLocked
    /\ Answered(1, "ping")
    /\ ResponseStatus(LastWritten(conn[1])) = <<"404">>
    /\ conn[1].calls = <<>>
    /\ Answered(2, "create")
    /\ ResponseStatus(LastWritten(conn[2])) = <<"404">>
    /\ conn[2].calls = <<>>

(***************************************************************************)
(* Properties of the layout of the responses.                              *)
(***************************************************************************)
\* The lines of a response before its first blank line.
HeadLines(bytes) == Split(SplitN(bytes, EndMarker, 2)[1], <<CRLF>>)

\* The layout of the Response Builder: four lines, the blank line, the body.
LaidOut(bytes) ==
    LET lines == HeadLines(bytes)
    IN  /\ Len(lines) = 4
        /\ HasPrefix(lines[1], <<"HTTP/1.1", SP>>)
        /\ Len(Split(lines[1], <<SP>>)) >= 3
        /\ ByteLen(Split(lines[1], <<SP>>)[2]) = 3
        /\ HasPrefix(lines[2], <<"Content-Type", ":", SP>>)
        /\ lines[3] = <<"Connection", ":", SP, "keep-alive">>
        /\ lines[4] = <<"Content-Length", ":", SP>> \o Itoa(ByteLen(ResponseBody(bytes)))

\* C34: every response the server writes is, in this order, the status line
\* HTTP/1.1 <code> <text>, Content-Type, Connection: keep-alive, Content-Length,
\* a blank line and the body, whatever the request was: also the response to a
\* request with Connection: close, after which the connection is closed; and
\* the response of a handler or of a static file carries its body as it is.
C34_ResponseLayout ==
    \A c \in Conns :
        /\ \A i \in 1..Len(conn[c].written) : LaidOut(conn[c].written[i].bytes)
        /\ \A q \in {"ping", "pingClose"} :
              (Answered(c, q) /\ conn[c].calls # <<>>)
                  => LastWritten(conn[c])
                        = <<"HTTP/1.1", SP, "200", SP, "OK", CRLF,
                            "Content-Type", ":", SP, "text/plain", CRLF,
                            "Connection", ":", SP, "keep-alive", CRLF,
                            "Content-Length", ":", SP, "4", CRLF, CRLF, "pong">>

\* GET /ping with Connection: close was answered by its handler, the response
\* says Connection: keep-alive, and the server has closed the connection.
C34_KeepAliveOnClose ==
    /\ Answered(1, "pingClose")
    /\ conn[1].calls # <<>>
    /\ Catalogue["pingClose"].connection = <<"close">>
    /\ HeadLines(LastWritten(conn[1]))[3] = <<"Connection", ":", SP, "keep-alive">>
    /\ conn[1].pc = "closed"

(***************************************************************************)
(* Properties of the ownership of pooled buffers.                          *)
(***************************************************************************)
\* The pieces goroutine g has read so far.
PiecesRead(g) == [i \in 1..probe.user[g].turns |-> PieceOf(g)]

\* C35: pooled buffers are exclusively owned.  The bytes readHTTPRequest
\* returned to a goroutine are the bytes it read, and the bytes
\* CreateResponseBytes returned to it are its response, whatever the other
\* goroutines do with the pools meanwhile: neither slice is the array of a
\* buffer put back.  No buffer is held by two goroutines or held while it is
\* in its pool.  Every chunk buffer taken is put back exactly once: while a
\* read is in progress one Get is not matched yet, and on every exit of
\* readHTTPRequest, and at every turn of its loop, each Get has had its Put.
C35_ExclusiveOwnership ==
    \A g \in PoolUsers :
        LET u == probe.user[g]
        IN  /\ u.pc \in {"have", "build", "done"}
                  => /\ Deref(probe.hmem, u.requestData) = PiecesRead(g)
                     /\ u.requestData.alias = 0
            /\ u.pc = "done"
                  => /\ Deref(probe.rmem, u.responseBytes) = <<ResponseOf(g)>>
                     /\ u.responseBytes.alias = 0
            /\ u.buf # 0 => u.buf \notin probe.request
            /\ u.chunkBuf # 0 => u.chunkBuf \notin probe.chunk
            /\ u.respBuf # 0 => u.respBuf \notin probe.response
            /\ \A h \in PoolUsers \ {g} :
                  /\ u.buf # 0 => probe.user[h].buf # u.buf
                  /\ u.chunkBuf # 0 => probe.user[h].chunkBuf # u.chunkBuf
                  /\ u.respBuf # 0 => probe.user[h].respBuf # u.respBuf
            /\ u.chunkGets - u.chunkPuts = IF u.pc \in {"read", "append"} THEN 1 ELSE 0
            /\ (u.pc \in {"read", "append"}) = (u.chunkBuf # 0)

\* Goroutine 1 holds the request it read in two reads and its response, and
\* goroutine 2 has since taken the request buffer goroutine 1 had used and the
\* response buffer it had used and written bytes of its own into both.
C35_BuffersReused ==
    /\ probe.op = "owner"
    /\ probe.user[1].pc = "done"
    /\ probe.user[1].turns = 2
    /\ probe.user[2].pc = "build"
    /\ probe.hmem[1] = <<PieceOf(2)>>
    /\ probe.user[1].requestData.data = <<PieceOf(1), PieceOf(1)>>
    /\ probe.user[2].respBuf = 1
    /\ probe.response = {}
    /\ probe.user[1].responseBytes.data = <<ResponseOf(1)>>

(***************************************************************************)
(* Properties of Register calls and handlers under Router.mu.              *)
(***************************************************************************)
\* C36: a handler runs while the read lock of the router is held.  A Register
\* call made by a running handler never returns: it stays in r.mu.Lock() with
\* its own read lock held.  However Register is called, it does not get past
\* r.mu.Lock() while a handler runs, so it completes only after every handler
\* that was running when it was called has returned.
C36_HandlerHoldsReadLock ==
    /\ InHandler(mu) \subseteq Reading
    /\ InHandler(mu) # {} => mu.readers >= 1 /\ ~mu.writer
    /\ mu.returned \subseteq {0}
    /\ \A t \in Lookers :
          (mu.reg.pc # "idle" /\ mu.reg.caller = t)
              => /\ mu.reg.pc = "w0"
                 /\ t \in InHandler(mu)
                 /\ ~ENABLED RegLock
    /\ mu.reg.pc \in {"w1", "w2", "w3"} => mu.reg.pending = {} /\ InHandler(mu) = {}
    /\ mu.reg.pending \subseteq InHandler(mu)

\* The handler running in goroutine 1 has called Register and waits in
\* r.mu.Lock() for the read lock it holds itself.
C36_HandlerDeadlocked ==
    /\ mu.reg.caller = 1
    /\ mu.reg.pc = "w0"
    /\ mu.look[1].pc = "handler"
    /\ mu.readers = 1
    /\ ~ENABLED NextLock

\* Register, called from a goroutine of its own, waits in r.mu.Lock() for the
\* two handlers that were running when it was called.
C36_RegisterWaitsForHandlers ==
    /\ mu.reg.caller = 0
    /\ mu.reg.pc = "w0"
    /\ mu.reg.pending = Lookers

\* C37: a handler panic does not leave the read lock held: the read lock is
\* held by exactly the goroutines that are between an RLock and its RUnlock,
\* whatever handlers have panicked; a lookup that asks for the read lock
\* while no Register call is under way gets it; and a Register call made after
\* handler panics completes.
C37_PanicReleasesReadLock ==
    /\ [](mu.readers = Cardinality(Reading))
    /\ [](\A t \in Lookers :
            (mu.reg.pc = "idle" /\ mu.look[t].pc = "gap") => ENABLED LookRLock2(t))
    /\ (mu.reg.pc = "w0" /\ mu.reg.since # {}) ~> (mu.reg.pc = "idle" /\ 0 \in mu.returned)

\* The handlers of both goroutines had panicked when Register was called; it
\* has returned, and a lookup made since has its handler running.
C37_RegisteredAfterPanics ==
    /\ scenario = "panics"
    /\ mu.reg.since = Lookers
    /\ mu.reg.pc = "idle"
    /\ mu.reg.n = MaxRegs
    /\ 0 \in mu.returned
    /\ mu.look[1].pc = "handler"
    /\ mu.look[1].result.found
    /\ mu.readers = 1

(***************************************************************************)
(* Properties of an idle session.                                          *)
(***************************************************************************)
\* C38: an idle session is closed by the server.  Once the client of a
\* connection, between two requests, sends nothing more and keeps the
\* connection open, the pending read of readHTTPRequest fails at its deadline
\* and RunConnection returns, which closes the connection; nothing is written
\* on the connection after the client has gone quiet.
C38_IdleSessionClosed ==
    /\ [](probe.client = "quiet" => probe.written = probe.quietWritten)
    /\ [](probe.client = "quiet" /\ probe.pc = "closed" => probe.last = "timeout")
    /\ [](probe.client = "quiet" => probe.pc \in {"header", "hread", "closed"})
    /\ (probe.client = "quiet") ~> (probe.pc = "closed")

\* A connection that was kept alive after its first response, whose client
\* then sent nothing, has been closed at the deadline of the read, with that
\* one response written.
C38_KeptAliveThenClosed ==
    /\ probe.op = "timing"
    /\ probe.client = "quiet"
    /\ probe.pc = "closed"
    /\ probe.last = "timeout"
    /\ probe.served = 1
    /\ probe.written = 1
    /\ probe.left = 0

(***************************************************************************)
(* Properties of the slashes of paths and patterns.                        *)
(***************************************************************************)
\* The registered routes of the method that have no capture segment and of
\* which the path is one with slashes added at its end.
SlashedRoutes(method, path) ==
    {p \in (IF method \in DOMAIN routes THEN DOMAIN routes[method] ELSE {}) :
        /\ \A i \in 1..Len(p) : p[i] # ":"
        /\ path # p
        /\ Len(path) > Len(p)
        /\ SubSeq(path, 1, Len(p)) = p
        /\ \A i \in Len(p) + 1..Len(path) : path[i] = "/"}

OnlySlashes(path) == path # <<>> /\ \A i \in 1..Len(path) : path[i] = "/"

\* C40: a capture can bind the empty string.  A lookup of a path made of
\* slashes only, with the pattern /:id registered for the method, finds the
\* handler of /:id with the parameters {id: ""}.
C40_EmptyCapture ==
    (/\ probe.op = "resolve"
     /\ OnlySlashes(probe.path)
     /\ RegisteredAt(probe.method, <<"/", ":", "id">>) # {})
        => /\ matchRoute(probe.path, <<"/", ":", "id">>)
                 = [matched |-> TRUE, params |-> (<<"id">> :> <<>>)]
           /\ probe.result.found
           /\ probe.result.pattern = <<"/", ":", "id">>
           /\ probe.result.handler = routes[probe.method][<<"/", ":", "id">>]
           /\ DOMAIN probe.result.params = {<<"id">>}
           /\ probe.result.params[<<"id">>] = <<>>

\* The path // was looked up with /:id and /ping registered and the handler
\* of /:id was found with an empty id.
C40_SlashesBindEmpty ==
    /\ probe.op = "resolve"
    /\ probe.path = <<"/", "/">>
    /\ GET \in DOMAIN routes
    /\ DOMAIN routes[GET] = {<<"/", "ping">>, <<"/", ":", "id">>}
    /\ probe.result.found
    /\ probe.result.pattern = <<"/", ":", "id">>
    /\ probe.result.params[<<"id">>] = <<>>

====
